---- MODULE Spec2Model ----
(***************************************************************************)
(* HassStateMonitor (src/m_hass_api/hass_state_monitor.py): the caller's   *)
(* thread (start/stop), the monitoring threads spawned by start(), the     *)
(* WebSocketApp each thread runs, and the frames the server sends.         *)
(***************************************************************************)
EXTENDS Integers, Sequences, FiniteSets, TLC

(* ------------------------------ bounds --------------------------------- *)
\* largest subscription id explored (message_id stops growing past it)
MaxMessageId == 3
\* depth of nested _connect frames at which the interpreter raises RecursionError
RecursionLimit == 2

(* --------------------------- configuration ----------------------------- *)
\* entities = {"sensor.a": "numeric", "sensor.b": "str"}
entities == [a |-> "numeric", b |-> "str"]
\* entity_ids = list(entities.keys()), in declaration order
entity_ids == <<"a", "b">>

None == "None"
\* the monitoring threads that can be alive together; a thread that ended leaves its
\* place to the next one start() spawns
\* the caller's thread, as a holder of the lock
Caller == 3
Threads == {1, 2}
Ids == 1..MaxMessageId
\* the keys self.subscription_ids can hold: the ids explored and, past them, those of
\* one more pass of _subscribe_to_entities
Keys == 1..(MaxMessageId + Len(entity_ids))
\* what the dispatch of a frame calls or sends: nothing, the auth frame, or the
\* StateChangeEvent handed to the callback
NoOutput == [kind |-> "none", entity_id |-> None, subscription_id |-> 0, data_type |-> None]
AuthFrame == [kind |-> "auth", entity_id |-> None, subscription_id |-> 0, data_type |-> None]
\* the handler raised: WebSocketApp._callback caught the exception, logged it and
\* called _on_error with it
ErrorOutput == [kind |-> "error", entity_id |-> None, subscription_id |-> 0, data_type |-> None]
NoFrame == [type |-> "none", id |-> 0]
AuthOk == [type |-> "auth_ok", id |-> 0]
\* no frame was dispatched by the newest step
NoDispatch == [thread |-> 0, frame |-> NoFrame, output |-> NoOutput, raised |-> FALSE]
\* frames _on_message cannot take apart: text that is not JSON, JSON without a type,
\* an event frame without an id, and an event frame with an id whose event, state,
\* attributes, last_changed or last_updated is missing
Malformed ==
    {[type |-> ty, id |-> 0] : ty \in {"undecodable", "untyped", "event_no_id"}}
        \cup {[type |-> "event_incomplete", id |-> k] : k \in Ids}
\* the result frames of the subscribe requests: success true ("result") or false, for
\* each id
Results == {[type |-> ty, id |-> k] : ty \in {"result", "result_failure"}, k \in Ids}
\* frames of a type _on_message has no branch for and the protocol does not list, with
\* and without an id
UnknownFrames == {[type |-> "pong", id |-> k] : k \in {0} \cup Ids}
\* the frames a server sends: the types _on_message knows but auth_ok, and
\* auth_invalid, which it has no branch for
Frames ==
    {[type |-> ty, id |-> 0] : ty \in {"auth_required", "auth_invalid", "result"}}
        \cup {[type |-> "event", id |-> k] : k \in Ids}

(* -------------------------------- values -------------------------------- *)
\* a str is the sequence of its characters; the values a state can hold are None, a
\* str or a bool
NoneValue == [kind |-> "None"]
Str(s) == [kind |-> "str", text |-> s]
Bool(b) == [kind |-> "bool", truth |-> b]
\* an exception raised instead of a value returned
Raise(exception) == [kind |-> exception]
Exceptions == {"ValueError", "TypeError", "AttributeError", "OverflowError"}
IsException(v) == v.kind \in Exceptions

\* longest str of the enumerated ones
MaxLen == 3
Alphabet == {"0", "1", "9", ".", "-", "e", "n", "o"}
Unknown == <<"u", "n", "k", "n", "o", "w", "n">>
Unavailable == <<"u", "n", "a", "v", "a", "i", "l", "a", "b", "l", "e">>
\* the strs the enumeration is too short for
Literals ==
    {Unknown,
     Unavailable,
     <<"2", "1", ".", "5">>,
     <<"-", "3", ".", "7">>,
     <<"0", ".", "9", "9">>,
     <<"1", "e", "9", "9", "9">>,
     <<"9", "e", "3", "0", "8">>,
     <<"1", "e", "3", "0", "8">>,
     <<"1", "e", "-", "9", "9", "9">>,
     <<"i", "n", "f">>,
     <<"-", "i", "n", "f">>,
     <<"I", "n", "f", "i", "n", "i", "t", "y">>,
     <<"n", "a", "n">>,
     <<"N", "a", "N">>,
     <<"a", "b", "c">>,
     <<"o", "n">>,
     <<"O", "N">>,
     <<"O", "n">>,
     <<"o", "f", "f">>,
     <<"t", "r", "u", "e">>,
     <<"T", "r", "u", "e">>,
     <<"f", "a", "l", "s", "e">>,
     <<"F", "A", "L", "S", "E">>,
     <<"y", "e", "s">>,
     <<"2", "0", "2", "4", "-", "0", "2", "-", "1", "4">>,
     <<"2", "0", "2", "4", "-", "0", "2", "-", "3", "0">>,
     <<"2", "0", "2", "4", "-", "0", "2", "-", "1", "4", "T", "1", "0", ":", "3",
       "0", ":", "0", "0">>,
     <<"2", "0", "2", "4", "-", "0", "2", "-", "1", "4", "T", "1", "0", ":", "3",
       "0", ":", "0", "0", "Z">>,
     <<"2", "0", "2", "4", "-", "0", "2", "-", "1", "4", "T", "1", "0", ":", "3",
       "0", ":", "0", "0", "+", "1", "1", ":", "0", "0">>,
     <<"2", "0", "2", "4", "-", "0", "2", "-", "1", "4", "T", "1", "0", ":", "3",
       "0", ":", "0", "0", ".", "1", "2", "3", "4", "5", "6", "+", "0", "0", ":", "0", "0">>,
     <<"2", "0", "2", "4", "-", "0", "2", "-", "1", "4", " ", "1", "0", ":", "3",
       "0">>,
     <<"2", "0", "2", "4", "-", "0", "2", "-", "1", "4", "T", "2", "5", ":", "0",
       "0", ":", "0", "0", "Z">>,
     <<"0", "0", "0", "1", "-", "0", "1", "-", "0", "1", "T", "0", "0", ":", "0",
       "0", ":", "0", "0", "+", "1", "0", ":", "0", "0">>}
Strings == UNION {[1..n -> Alphabet] : n \in 0..MaxLen} \cup Literals
\* the values of to_state['state']: a str, a bool or null
RawValues == {Str(s) : s \in Strings} \cup {Bool(b) : b \in BOOLEAN} \cup {NoneValue}

DigitChars == <<"0", "1", "2", "3", "4", "5", "6", "7", "8", "9">>
IsDigit(c) == \E i \in DOMAIN DigitChars : DigitChars[i] = c
DigitValue(c) == (CHOOSE i \in DOMAIN DigitChars : DigitChars[i] = c) - 1
AllDigits(s) == \A i \in DOMAIN s : IsDigit(s[i])

RECURSIVE DigitsValue(_)
DigitsValue(s) ==
    IF Len(s) = 0 THEN 0
    ELSE 10 * DigitsValue(SubSeq(s, 1, Len(s) - 1)) + DigitValue(s[Len(s)])

UpperChars == <<"A", "B", "C", "D", "E", "F", "G", "H", "I", "J", "K", "L", "M", "N",
                "O", "P", "Q", "R", "S", "T", "U", "V", "W", "X", "Y", "Z">>
LowerChars == <<"a", "b", "c", "d", "e", "f", "g", "h", "i", "j", "k", "l", "m", "n",
                "o", "p", "q", "r", "s", "t", "u", "v", "w", "x", "y", "z">>
\* str.lower()
Lower(s) ==
    [i \in DOMAIN s |->
        IF \E k \in DOMAIN UpperChars : UpperChars[k] = s[i]
        THEN LowerChars[CHOOSE k \in DOMAIN UpperChars : UpperChars[k] = s[i]]
        ELSE s[i]]

\* str.find(c) + 1: the first position of c in s, 0 when s has no c
Find(s, c) ==
    IF \E i \in DOMAIN s : s[i] = c
    THEN CHOOSE i \in DOMAIN s : s[i] = c /\ \A j \in 1..(i - 1) : s[j] # c
    ELSE 0

(* -------------------------------- float() ------------------------------- *)
RECURSIVE Pow10(_)
Pow10(n) == IF n = 0 THEN 1 ELSE 10 * Pow10(n - 1)

RECURSIVE NumDigits(_)
NumDigits(m) == IF m < 10 THEN 1 ELSE 1 + NumDigits(m \div 10)

\* m * 10^e with the trailing zeros of m moved into e
RECURSIVE Normalize(_, _)
Normalize(m, e) ==
    IF m = 0 THEN <<0, 0>>
    ELSE IF m % 10 = 0 THEN Normalize(m \div 10, e + 1)
    ELSE <<m, e>>

\* the four leading digits of m
Lead4(m) ==
    IF NumDigits(m) <= 4 THEN m * Pow10(4 - NumDigits(m)) ELSE m \div Pow10(NumDigits(m) - 4)

\* a float: the double nearest to (-)m * 10^e, or an infinity, or nan
Inf(neg) == [kind |-> "inf", neg |-> neg, m |-> 0, e |-> 0]
NaN == [kind |-> "nan", neg |-> FALSE, m |-> 0, e |-> 0]
Zero(neg) == [kind |-> "float", neg |-> neg, m |-> 0, e |-> 0]

\* the double for m * 10^e whose leading digit stands at 10^top: decimal magnitudes
\* past the largest double (1.7976931348623157e308) are infinite, those under half
\* the smallest one (4.94e-324) are zero
FloatInRange(neg, m, e, top) ==
    IF m = 0 THEN Zero(neg)
    ELSE IF top > 308 \/ (top = 308 /\ Lead4(m) >= 1798) THEN Inf(neg)
    ELSE IF top < -324 \/ (top = -324 /\ Lead4(m) <= 2470) THEN Zero(neg)
    ELSE [kind |-> "float", neg |-> neg, m |-> m, e |-> e]

FloatOfNormal(neg, n) == FloatInRange(neg, n[1], n[2], NumDigits(n[1]) + n[2] - 1)

Float(neg, m, e) == FloatOfNormal(neg, Normalize(m, e))

\* the exponent after the e: [sign] digits
ValidExponent(x) ==
    IF Len(x) > 0 /\ x[1] \in {"+", "-"} THEN Len(x) > 1 /\ AllDigits(Tail(x))
    ELSE Len(x) > 0 /\ AllDigits(x)

ExponentValue(x) ==
    IF Len(x) = 0 THEN 0
    ELSE IF x[1] = "-" THEN 0 - DigitsValue(Tail(x))
    ELSE IF x[1] = "+" THEN DigitsValue(Tail(x))
    ELSE DigitsValue(x)

FloatOfDigits(neg, whole, fraction, has_exponent, exponent) ==
    IF /\ AllDigits(whole)
       /\ AllDigits(fraction)
       /\ Len(whole) + Len(fraction) > 0
       /\ has_exponent => ValidExponent(exponent)
    THEN Float(neg, DigitsValue(whole \o fraction), ExponentValue(exponent) - Len(fraction))
    ELSE Raise("ValueError")

FloatOfMantissa(neg, mantissa, dot, has_exponent, exponent) ==
    FloatOfDigits(neg,
                  IF dot = 0 THEN mantissa ELSE SubSeq(mantissa, 1, dot - 1),
                  IF dot = 0 THEN <<>> ELSE SubSeq(mantissa, dot + 1, Len(mantissa)),
                  has_exponent, exponent)

FloatOfBody(neg, body, epos) ==
    FloatOfMantissa(neg,
                    IF epos = 0 THEN body ELSE SubSeq(body, 1, epos - 1),
                    Find(IF epos = 0 THEN body ELSE SubSeq(body, 1, epos - 1), "."),
                    epos # 0,
                    IF epos = 0 THEN <<>> ELSE SubSeq(body, epos + 1, Len(body)))

FloatOfUnsigned(neg, body) ==
    IF body \in {<<"i", "n", "f">>, <<"i", "n", "f", "i", "n", "i", "t", "y">>} THEN Inf(neg)
    ELSE IF body = <<"n", "a", "n">> THEN NaN
    ELSE FloatOfBody(neg, body, Find(body, "e"))

FloatOfLower(l) ==
    IF Len(l) > 0 /\ l[1] \in {"+", "-"} THEN FloatOfUnsigned(l[1] = "-", Tail(l))
    ELSE FloatOfUnsigned(FALSE, l)

\* float(s) for a str without blanks and underscores: [sign] digits [. digits]
\* [e [sign] digits], inf, infinity or nan in any case; anything else is a ValueError
ParseFloat(s) == FloatOfLower(Lower(s))

\* str(value)
PyStr(value) ==
    IF value.kind = "bool" THEN Str(IF value.truth THEN <<"T", "r", "u", "e">> ELSE <<"F", "a", "l", "s", "e">>)
    ELSE IF value.kind = "None" THEN Str(<<"N", "o", "n", "e">>)
    ELSE value

\* float(value)
PyFloat(value) ==
    IF value.kind = "bool" THEN Float(FALSE, IF value.truth THEN 1 ELSE 0, 0)
    ELSE IF value.kind = "None" THEN Raise("TypeError")
    ELSE ParseFloat(value.text)

\* the digits of f before the decimal point
Truncated(f) ==
    IF f.e >= 0 THEN f.m
    ELSE IF 0 - f.e > NumDigits(f.m) THEN 0
    ELSE f.m \div Pow10(0 - f.e)

IntOf(neg, n) == [kind |-> "int", neg |-> neg /\ n[1] # 0, m |-> n[1], e |-> n[2]]

\* int(f) of a float: truncation toward zero; an infinity raises OverflowError and
\* nan ValueError
PyInt(f) ==
    IF f.kind = "inf" THEN Raise("OverflowError")
    ELSE IF f.kind = "nan" THEN Raise("ValueError")
    ELSE IntOf(f.neg, Normalize(Truncated(f), IF f.e >= 0 THEN f.e ELSE 0))

(* -------------------------- _convert_timestamp() ------------------------ *)
\* str.replace('Z', '+00:00')
RECURSIVE ReplaceZ(_)
ReplaceZ(s) ==
    IF Len(s) = 0 THEN <<>>
    ELSE (IF Head(s) = "Z" THEN <<"+", "0", "0", ":", "0", "0">> ELSE <<Head(s)>>) \o ReplaceZ(Tail(s))

\* the number written by the n digits of s from position i, -1 when they are not
\* n digits
Num(s, i, n) ==
    IF i + n - 1 <= Len(s) /\ AllDigits(SubSeq(s, i, i + n - 1))
    THEN DigitsValue(SubSeq(s, i, i + n - 1))
    ELSE -1

DaysInMonth(y, mo) ==
    IF mo \in {4, 6, 9, 11} THEN 30
    ELSE IF mo # 2 THEN 31
    ELSE IF y % 4 = 0 /\ (y % 100 # 0 \/ y % 400 = 0) THEN 29
    ELSE 28

\* s starts with YYYY-MM-DD, a day of the calendar
ValidDate(s) ==
    /\ Len(s) >= 10
    /\ s[5] = "-" /\ s[8] = "-"
    /\ Num(s, 1, 4) >= 1
    /\ Num(s, 6, 2) \in 1..12
    /\ Num(s, 9, 2) >= 1
    /\ Num(s, 9, 2) <= DaysInMonth(Num(s, 1, 4), Num(s, 6, 2))

DateOf(s) == <<Num(s, 1, 4), Num(s, 6, 2), Num(s, 9, 2)>>

\* HH, HH:MM, HH:MM:SS, HH:MM:SS.fff or HH:MM:SS.ffffff as <<h, mi, s, us>>; <<>> when
\* s is none of them
ParseTime(s) ==
    IF /\ Len(s) \in {2, 5, 8, 12, 15}
       /\ Len(s) >= 5 => s[3] = ":"
       /\ Len(s) >= 8 => s[6] = ":"
       /\ Len(s) >= 12 => s[9] = "."
       /\ Num(s, 1, 2) \in 0..23
       /\ Len(s) >= 5 => Num(s, 4, 2) \in 0..59
       /\ Len(s) >= 8 => Num(s, 7, 2) \in 0..59
       /\ Len(s) >= 12 => Num(s, 10, Len(s) - 9) >= 0
    THEN <<Num(s, 1, 2),
           IF Len(s) >= 5 THEN Num(s, 4, 2) ELSE 0,
           IF Len(s) >= 8 THEN Num(s, 7, 2) ELSE 0,
           IF Len(s) = 12 THEN 1000 * Num(s, 10, 3)
           ELSE IF Len(s) = 15 THEN Num(s, 10, 6) ELSE 0>>
    ELSE <<>>

\* +HH:MM or -HH:MM in minutes; 1440 when s is neither
ParseOffset(s) ==
    IF /\ Len(s) = 6
       /\ s[1] \in {"+", "-"}
       /\ s[4] = ":"
       /\ Num(s, 2, 2) \in 0..23
       /\ Num(s, 5, 2) \in 0..59
    THEN (IF s[1] = "-" THEN -1 ELSE 1) * (60 * Num(s, 2, 2) + Num(s, 5, 2))
    ELSE 1440

\* a datetime: the wall clock <<y, mo, d, h, mi, s, us>>, naive or at offset minutes
\* from UTC, shown in zone ("" for none or a fixed offset)
Datetime(wall, aware, offset, zone) ==
    [kind |-> "datetime", wall |-> wall, aware |-> aware, offset |-> offset, zone |-> zone]

DatetimeOf(date, time, has_offset, offset) ==
    IF time = <<>> THEN Raise("ValueError")
    ELSE IF ~has_offset THEN Datetime(date \o time, FALSE, 0, "")
    ELSE IF offset = 1440 THEN Raise("ValueError")
    ELSE Datetime(date \o time, TRUE, offset, "")

\* the time ends where the sign of the offset stands
TimeAndOffset(date, rest, opos) ==
    DatetimeOf(date,
               ParseTime(IF opos = 0 THEN rest ELSE SubSeq(rest, 1, opos - 1)),
               opos # 0,
               ParseOffset(IF opos = 0 THEN <<>> ELSE SubSeq(rest, opos, Len(rest))))

\* datetime.fromisoformat(s) for the forms every Python since 3.9 parses alike:
\* YYYY-MM-DD, then optionally any one separator, a time and a UTC offset
FromIsoFormat(s) ==
    IF ~ValidDate(s) THEN Raise("ValueError")
    ELSE IF Len(s) = 10 THEN Datetime(DateOf(s) \o <<0, 0, 0, 0>>, FALSE, 0, "")
    ELSE IF Len(s) = 11 THEN Raise("ValueError")
    ELSE TimeAndOffset(DateOf(s), SubSeq(s, 12, Len(s)),
                       IF Find(SubSeq(s, 12, Len(s)), "+") # 0
                       THEN Find(SubSeq(s, 12, Len(s)), "+")
                       ELSE Find(SubSeq(s, 12, Len(s)), "-"))

\* utcoffset() of ZoneInfo(tz) in minutes: UTC, and a zone that has had one offset and
\* no daylight saving time since 1992
ZoneOffset(tz) == IF tz = "Australia/Brisbane" THEN 600 ELSE 0

NextDay(date) ==
    IF date[3] < DaysInMonth(date[1], date[2]) THEN <<date[1], date[2], date[3] + 1>>
    ELSE IF date[2] < 12 THEN <<date[1], date[2] + 1, 1>>
    ELSE <<date[1] + 1, 1, 1>>

PrevDay(date) ==
    IF date[3] > 1 THEN <<date[1], date[2], date[3] - 1>>
    ELSE IF date[2] > 1 THEN <<date[1], date[2] - 1, DaysInMonth(date[1], date[2] - 1)>>
    ELSE <<date[1] - 1, 12, 31>>

RECURSIVE ShiftDays(_, _)
ShiftDays(date, n) ==
    IF n = 0 THEN date
    ELSE IF n > 0 THEN ShiftDays(NextDay(date), n - 1)
    ELSE ShiftDays(PrevDay(date), n + 1)

\* the wall clock that stands minutes after midnight of date
Moved(date, minutes, s, us) ==
    ShiftDays(date, minutes \div 1440) \o <<(minutes % 1440) \div 60, minutes % 60, s, us>>

\* datetime.MINYEAR .. datetime.MAXYEAR
InRange(wall) == wall[1] \in 1..9999

\* the datetime shown in tz, given its wall clock in UTC and in tz; a wall clock
\* outside the calendar is an OverflowError
AsTimezoneOf(utc, local, tz) ==
    IF ~InRange(utc) \/ ~InRange(local) THEN Raise("OverflowError")
    ELSE Datetime(local, TRUE, ZoneOffset(tz), tz)

\* line 417, datetime_value.astimezone(self.tz): (self - offset) put in tz
AsTimezone(datetime_value, tz) ==
    AsTimezoneOf(Moved(SubSeq(datetime_value.wall, 1, 3),
                       60 * datetime_value.wall[4] + datetime_value.wall[5]
                           - datetime_value.offset,
                       datetime_value.wall[6], datetime_value.wall[7]),
                 Moved(SubSeq(datetime_value.wall, 1, 3),
                       60 * datetime_value.wall[4] + datetime_value.wall[5]
                           - datetime_value.offset + ZoneOffset(tz),
                       datetime_value.wall[6], datetime_value.wall[7]),
                 tz)

\* line 420, datetime_value.replace(tzinfo=self.tz): the same wall clock, read in tz
ReplaceTzinfo(datetime_value, tz) == Datetime(datetime_value.wall, TRUE, ZoneOffset(tz), tz)

\* date.toordinal(): the days from 0001-01-01, which is day 1
RECURSIVE DaysBeforeMonth(_, _)
DaysBeforeMonth(y, mo) ==
    IF mo = 1 THEN 0 ELSE DaysInMonth(y, mo - 1) + DaysBeforeMonth(y, mo - 1)

ToOrdinal(y, mo, d) ==
    365 * (y - 1) + (y - 1) \div 4 - (y - 1) \div 100 + (y - 1) \div 400
        + DaysBeforeMonth(y, mo) + d

\* the instant an aware datetime denotes: <<minutes of UTC from 0001-01-01, s, us>>
Instant(datetime_value) ==
    <<1440 * (ToOrdinal(datetime_value.wall[1], datetime_value.wall[2],
                        datetime_value.wall[3]) - 1)
          + 60 * datetime_value.wall[4] + datetime_value.wall[5] - datetime_value.offset,
      datetime_value.wall[6], datetime_value.wall[7]>>

\* lines 413-421: the parsed datetime put in self.tz (None or the name of a zone);
\* lines 422-423: the caught exceptions
Localized(datetime_value, tz) ==
    IF IsException(datetime_value)
    THEN (IF datetime_value.kind \in {"ValueError", "TypeError", "AttributeError"}
          THEN NoneValue ELSE datetime_value)
    ELSE IF tz = None THEN datetime_value
    ELSE IF datetime_value.aware THEN AsTimezone(datetime_value, tz)
    ELSE ReplaceTzinfo(datetime_value, tz)

\* _convert_timestamp(), lines 408-423
ConvertTimestamp(timestamp_str, tz) ==
    IF timestamp_str \in {NoneValue, Str(<<>>), Bool(FALSE)} THEN NoneValue
    ELSE Localized(IF timestamp_str.kind # "str" THEN Raise("AttributeError")
                   ELSE FromIsoFormat(ReplaceZ(timestamp_str.text)),
                   tz)

(* ---------------------------- _convert_value() -------------------------- *)
DataTypes ==
    {"numeric", "datetime", "str", "string", "bool", "boolean", "int", "integer", "json"}

\* lines 375-379: the bool of the lowered str
BoolOf(lower_val) ==
    IF lower_val \in {<<"o", "n">>, <<"t", "r", "u", "e">>, <<"1">>} THEN Bool(TRUE)
    ELSE IF lower_val \in {<<"o", "f", "f">>, <<"f", "a", "l", "s", "e">>, <<"0">>} THEN Bool(FALSE)
    ELSE NoneValue

\* line 381: int(float(value)), f being float(value) or what it raised
IntOfFloat(f) == IF IsException(f) THEN f ELSE PyInt(f)

\* the conversion with line 374 comparing str(value) as it is written
ConvertedCaseSensitive(value, data_type, tz) ==
    IF data_type = "numeric" THEN PyFloat(value)
    ELSE IF data_type = "datetime" THEN ConvertTimestamp(value, tz)
    ELSE IF data_type \in {"str", "string"} THEN PyStr(value)
    ELSE IF data_type \in {"bool", "boolean"}
         THEN IF value.kind = "bool" THEN value ELSE BoolOf(PyStr(value).text)
    ELSE IF data_type \in {"int", "integer"} THEN IntOfFloat(PyFloat(value))
    ELSE value

\* lines 365-383: the conversion the declared type asks for, or what it raises
Converted(value, data_type, tz) ==
    IF data_type = "numeric" THEN PyFloat(value)
    ELSE IF data_type = "datetime" THEN ConvertTimestamp(value, tz)
    ELSE IF data_type \in {"str", "string"} THEN PyStr(value)
    ELSE IF data_type \in {"bool", "boolean"}
         THEN IF value.kind = "bool" THEN value ELSE BoolOf(Lower(PyStr(value).text))
    ELSE IF data_type \in {"int", "integer"} THEN IntOfFloat(PyFloat(value))
    ELSE value

\* lines 384-385: except (ValueError, TypeError, AttributeError): return None
Caught(result) ==
    IF result.kind \in {"ValueError", "TypeError", "AttributeError"} THEN NoneValue
    ELSE result

\* _convert_value() without the test of lines 361-362
ConvertValueUnguarded(value, data_type, tz) == Caught(Converted(value, data_type, tz))

\* _convert_value(), lines 361-385: None, 'unknown' and 'unavailable' give None, the
\* three caught exceptions give None, any other exception leaves the function
ConvertValue(value, data_type, tz) ==
    IF value = NoneValue \/ value \in {Str(Unknown), Str(Unavailable)} THEN NoneValue
    ELSE Caught(Converted(value, data_type, tz))

(* ------------------- _handle_state_change(): the values ----------------- *)
\* trigger.get('to_state'): no object, or an object with its state
NoObject == [kind |-> "absent"]
StateObject(v) == [kind |-> "state", state |-> v]
\* to_state['state'] if to_state else None
RawState(object) == IF object = NoObject THEN NoneValue ELSE object.state

\* lines 517-530: StateChangeEvent(...), unless _convert_value raised before
EventOf(type, new_state, old_state, new_state_raw, old_state_raw) ==
    IF IsException(new_state) THEN new_state
    ELSE IF IsException(old_state) THEN old_state
    ELSE [kind |-> "StateChangeEvent", data_type |-> type,
          new_state |-> new_state, old_state |-> old_state,
          new_state_raw |-> new_state_raw, old_state_raw |-> old_state_raw]

\* lines 507-530: the StateChangeEvent of an entity declared type, or the exception
\* _convert_value raised
BuildEvent(new, old, type, tz) ==
    EventOf(type, ConvertValue(RawState(new), type, tz), ConvertValue(RawState(old), type, tz),
            RawState(new), RawState(old))

\* nothing was converted yet
Pending == [kind |-> "pending"]

VARIABLES
    should_reconnect,   \* self.should_reconnect
    ws,                 \* self.ws: 0 (None) or the thread whose newest WebSocketApp it is
    ws_thread,          \* self.ws_thread: 0 (None) or the newest thread
    message_id,         \* self.message_id
    subscription_ids,   \* self.subscription_ids, None where the key is absent
    cpc,                \* the caller's position inside stop()
    pc,                 \* each monitoring thread's position
    sock,               \* each thread's WebSocketApp: is its socket open
    depth,              \* each thread's number of nested _connect frames
    idx,                \* each thread's index in the loop of _subscribe_to_entities
    subscription_id,    \* each thread's local subscription_id in that loop
    sent,               \* each thread's subscribe requests sent on its current socket
    dispatched,         \* the frame the newest step dispatched, if it dispatched one,
                        \* and what _on_message called or sent for it
    args,               \* the arguments HassStateMonitor(...) is called with
    constructed,        \* "no" before __init__ ran, then "yes", or "raised" if it raised
    to_state,           \* the to_state of the trigger of an event frame taken on its own
    from_state,         \* its from_state
    data_type,          \* the declared type of the frame's entity
    converted,          \* what _convert_value made of to_state's state, once called
    event,              \* what _handle_state_change built from the frame, once called
    client_args,        \* the arguments HassApiClient(...) is called with
    base_url,           \* self.base_url of the HassApiClient
    states_df,          \* its self.states_df
    session,            \* its self.session: "none" before __init__ ran, "open" or "closed"
    closes,             \* the number of calls of self.session.close()
    gets,               \* the urls of the calls of self.session.get(), in order
    outcome,            \* the newest call on the client and what it returned or raised
    block,              \* where the with statement over the client stands
    subscription_lock   \* self._subscription_lock: 0 (free) or the context holding it

vars == <<should_reconnect, ws, ws_thread, message_id, subscription_ids, cpc, pc,
          sock, depth, idx, subscription_id, sent, dispatched, args, constructed,
          to_state, from_state, data_type, converted, event, client_args, base_url,
          states_df, session, closes, gets, outcome, block, subscription_lock>>

\* everything but the record of the newest dispatch
program == <<should_reconnect, ws, ws_thread, message_id, subscription_ids, cpc, pc,
             sock, depth, idx, subscription_id, sent>>

\* the frame whose values are converted on their own
conversion == <<to_state, from_state, data_type, converted, event>>

\* the HassApiClient, an object of its own
client == <<client_args, base_url, states_df, session, closes, gets, outcome, block>>

\* what a step of the running monitor leaves as it was: the constructor's arguments
\* and outcome, that frame, the client, and the lock, which a step that is a whole
\* access to the table takes and releases
detached == <<args, constructed, conversion, client, subscription_lock>>

\* subscription_ids = {}
EmptyTable == [k \in Keys |-> None]

\* the time zone names ZoneInfo() finds; any other name raises ZoneInfoNotFoundError
KnownZones == {"UTC", "Australia/Brisbane"}

(* ----------------------------- HassApiClient ---------------------------- *)
\* the calls made on one client
MaxCalls == 3

\* the rows of /api/states: a list of state objects
StateRows ==
    {<<>>,
     <<[entity_id |-> "a", state |-> "21.5", attributes |-> [unit |-> "C"]]>>,
     <<[entity_id |-> "a", state |-> "21.5", attributes |-> [unit |-> "C"]],
       [entity_id |-> "b", state |-> "on", attributes |-> [icon |-> "mdi"]]>>}
\* a JSON body and what response.json() makes of it
Json(rows) == [kind |-> "json", rows |-> rows]
Decoded(body) == [kind |-> "list", rows |-> body.rows]
\* pd.DataFrame(states)
DataFrame(states) == [kind |-> "DataFrame", rows |-> states.rows]
\* a body that is not JSON
Undecodable == [kind |-> "undecodable"]

\* what session.get() meets: a response with a status and a body (the body of an
\* error status is never read), or no response
Answers ==
    {[kind |-> "response", status |-> 200, body |-> b] :
        b \in {Json(rows) : rows \in StateRows} \cup {Undecodable}}
        \cup {[kind |-> "response", status |-> c, body |-> Undecodable] : c \in {401, 404, 500}}
        \cup {[kind |-> k, status |-> 0, body |-> Undecodable] :
                  k \in {"Timeout", "ConnectionError"}}

\* a call's end: the value returned, or APIError(message, status_code) raised
Returned(value) == [kind |-> "return", value |-> value]
APIError(status_code) == [kind |-> "APIError", status_code |-> status_code]
\* a call that asked the server nothing
NoAnswer == [kind |-> "none", status |-> 0, body |-> Undecodable]
\* outcome: the n-th call on the client, the answer its request met and its end
Outcome(n, call, met, result) == [n |-> n, call |-> call, met |-> met, result |-> result]
\* outcome before any call
NoCall == Outcome(0, "none", NoAnswer, Returned(NoneValue))
\* block: outside the with statement, inside it (an exception raised by its body or
\* none), or left
Block(at, exception) == [at |-> at, exception |-> exception]

\* strs of urls: a letter for a host, the slash and the blank
BaseUrls == {<<>>, <<" ">>, <<"/">>, <<"h">>, <<"h", "/">>, <<"h", "/", "/">>}
StatesEndpoint == <<"/", "a", "p", "i", "/", "s", "t", "a", "t", "e", "s">>
Endpoints == {<<>>, <<"s">>, <<"/", "/", "s">>, StatesEndpoint}

\* str.rstrip(c) and str.lstrip(c)
RECURSIVE RStrip(_, _)
RStrip(s, c) ==
    IF Len(s) > 0 /\ s[Len(s)] = c THEN RStrip(SubSeq(s, 1, Len(s) - 1), c) ELSE s

RECURSIVE LStrip(_, _)
LStrip(s, c) == IF Len(s) > 0 /\ s[1] = c THEN LStrip(Tail(s), c) ELSE s

\* not s.strip()
Blank(s) == \A i \in DOMAIN s : s[i] = " "

\* the arguments explored: base_url, states_df (None or a table), tz (None or a name)
ClientArgs ==
    [base_url : BaseUrls,
     states_df : {NoneValue} \cup {DataFrame(Json(rows)) : rows \in StateRows},
     tz : {None, "UTC", "Mars/Phobos"}]

DefaultClientArgs == [base_url |-> <<"h">>, states_df |-> NoneValue, tz |-> None]

\* no client was constructed
NoClient ==
    /\ base_url = <<>>
    /\ states_df = NoneValue
    /\ session = "none"
    /\ closes = 0
    /\ gets = <<>>
    /\ outcome = NoCall
    /\ block = Block("outside", None)

\* everything but the client
monitor == <<program, dispatched, args, constructed, conversion, subscription_lock>>

\* lines 59-73: what __init__ raises, if it raises
ClientInitRaises(a) ==
    IF a.base_url = <<>> \/ Blank(a.base_url) THEN "ValueError"
    ELSE IF a.tz # None /\ a.tz \notin KnownZones THEN "ZoneInfoNotFoundError"
    ELSE None

\* HassApiClient(base_url, states_df=..., tz=...), lines 59-80; line 67 sets
\* self.states_df to None whatever states_df was passed
NewClient ==
    /\ session = "none"
    /\ outcome = NoCall
    /\ IF ClientInitRaises(client_args) # None
       THEN /\ outcome' = Outcome(1, "__init__", NoAnswer,
                                   Raise(ClientInitRaises(client_args)))
            /\ UNCHANGED <<base_url, states_df, session>>
       ELSE /\ outcome' = Outcome(1, "__init__", NoAnswer, Returned(NoneValue))
            /\ base_url' = RStrip(client_args.base_url, "/")
            /\ states_df' = NoneValue
            /\ session' = "open"
    /\ UNCHANGED <<monitor, client_args, closes, gets, block>>

\* lines 101-102: the url of an endpoint
Url(base, endpoint) ==
    IF LStrip(endpoint, "/") # <<>> THEN base \o <<"/">> \o LStrip(endpoint, "/") ELSE base

\* lines 104-115 without the except clause: what session.get() raised goes on
FetchedUncaught(answer, modern) ==
    IF answer.kind # "response" THEN Raise(answer.kind)
    ELSE IF answer.status >= 400 THEN Raise("HTTPError")
    ELSE IF answer.body = Undecodable
         THEN (IF modern THEN APIError(None) ELSE Raise("ValueError"))
    ELSE Returned(Decoded(answer.body))

\* lines 104-115: session.get(), raise_for_status() and json() on the answer met.
\* Every RequestException becomes an APIError, with the status code of the response
\* when the exception has one. A body that is not JSON raises a RequestException
\* since requests 2.27 (modern) and a ValueError before, which is not caught; setup.py
\* allows both.
Fetched(answer, modern) ==
    IF answer.kind # "response" THEN APIError(None)
    ELSE IF answer.status >= 400 THEN APIError(answer.status)
    ELSE IF answer.body = Undecodable
         THEN (IF modern THEN APIError(None) ELSE Raise("ValueError"))
    ELSE Returned(Decoded(answer.body))

\* a call on a constructed client; a with statement that was left makes no more calls
CanCall == session # "none" /\ outcome.n < MaxCalls /\ block.at # "left"

\* get_data(endpoint), lines 101-115
GetData(endpoint, answer, modern) ==
    /\ CanCall
    /\ gets' = Append(gets, Url(base_url, endpoint))
    /\ outcome' = Outcome(outcome.n + 1, "get_data", answer, Fetched(answer, modern))
    /\ UNCHANGED <<monitor, client_args, base_url, states_df, session, closes, block>>

\* a get_states() without the test of line 118: it asks the server every time
GetStatesRefetching(answer, modern) ==
    /\ CanCall
    /\ gets' = Append(gets, Url(base_url, StatesEndpoint))
    /\ IF Fetched(answer, modern).kind = "return"
       THEN /\ states_df' = DataFrame(Fetched(answer, modern).value)
            /\ outcome' = Outcome(outcome.n + 1, "get_states", answer,
                                  Returned(DataFrame(Fetched(answer, modern).value)))
       ELSE /\ outcome' = Outcome(outcome.n + 1, "get_states", answer,
                                  Fetched(answer, modern))
            /\ UNCHANGED states_df
    /\ UNCHANGED <<monitor, client_args, base_url, session, closes, block>>

\* get_states(), lines 117-123
GetStates(answer, modern) ==
    /\ CanCall
    /\ IF states_df = NoneValue
       THEN /\ gets' = Append(gets, Url(base_url, StatesEndpoint))
            /\ IF Fetched(answer, modern).kind = "return"
               THEN /\ states_df' = DataFrame(Fetched(answer, modern).value)
                    /\ outcome' = Outcome(outcome.n + 1, "get_states", answer,
                                          Returned(DataFrame(Fetched(answer, modern).value)))
               ELSE /\ outcome' = Outcome(outcome.n + 1, "get_states", answer,
                                          Fetched(answer, modern))
                    /\ UNCHANGED states_df
       ELSE /\ outcome' = Outcome(outcome.n + 1, "get_states", NoAnswer,
                                  Returned(states_df))
            /\ UNCHANGED <<gets, states_df>>
    /\ UNCHANGED <<monitor, client_args, base_url, session, closes, block>>

\* what get_states() returns or raises with self.states_df = cache, lines 118-123
States(cache, answer, modern) ==
    IF cache # NoneValue THEN Returned(cache)
    ELSE IF Fetched(answer, modern).kind = "return"
         THEN Returned(DataFrame(Fetched(answer, modern).value))
    ELSE Fetched(answer, modern)

\* self.states_df after that call, and the requests made after it
Cached(cache, answer, modern) ==
    IF States(cache, answer, modern).kind = "return"
    THEN States(cache, answer, modern).value ELSE cache
Requested(cache) ==
    IF cache = NoneValue THEN Append(gets, Url(base_url, StatesEndpoint)) ELSE gets

\* states_df[states_df["entity_id"] == entity_id]: the rows of the entity; a frame made
\* of no rows has no column entity_id
StateRow(frame, entity_id) == SelectSeq(frame.rows, LAMBDA r : r.entity_id = entity_id)

\* lines 127-131 on the frame get_states() returned
StateAsString(frame, entity_id) ==
    IF frame.rows = <<>> THEN Raise("KeyError")
    ELSE IF StateRow(frame, entity_id) # <<>>
         THEN Returned(Str(StateRow(frame, entity_id)[1].state))
    ELSE Returned(NoneValue)

\* get_state_as_string(entity_id), lines 125-131
GetStateAsString(entity_id, answer, modern) ==
    /\ CanCall
    /\ gets' = Requested(states_df)
    /\ states_df' = Cached(states_df, answer, modern)
    /\ outcome' = Outcome(outcome.n + 1, "get_state_as_string",
                          IF states_df = NoneValue THEN answer ELSE NoAnswer,
                          IF States(states_df, answer, modern).kind = "return"
                          THEN StateAsString(States(states_df, answer, modern).value,
                                             entity_id)
                          ELSE States(states_df, answer, modern))
    /\ UNCHANGED <<monitor, client_args, base_url, session, closes, block>>

\* lines 163-168 on self.states_df
StateAttributeAsString(frame, entity_id, attribute_name) ==
    IF frame.rows = <<>> THEN Raise("KeyError")
    ELSE IF StateRow(frame, entity_id) # <<>>
            /\ attribute_name \in DOMAIN StateRow(frame, entity_id)[1].attributes
         THEN Returned(Str(StateRow(frame, entity_id)[1].attributes[attribute_name]))
    ELSE Returned(NoneValue)

\* get_state_attribute_as_string(entity_id, attribute_name), lines 160-168
GetStateAttributeAsString(entity_id, attribute_name, answer, modern) ==
    /\ CanCall
    /\ gets' = Requested(states_df)
    /\ states_df' = Cached(states_df, answer, modern)
    /\ outcome' = Outcome(outcome.n + 1, "get_state_attribute_as_string",
                          IF states_df = NoneValue THEN answer ELSE NoAnswer,
                          IF States(states_df, answer, modern).kind = "return"
                          THEN StateAttributeAsString(
                                   States(states_df, answer, modern).value, entity_id,
                                   attribute_name)
                          ELSE States(states_df, answer, modern))
    /\ UNCHANGED <<monitor, client_args, base_url, session, closes, block>>

\* close(), lines 236-238
CloseClient ==
    /\ CanCall
    /\ session' = "closed"
    /\ closes' = closes + 1
    /\ outcome' = Outcome(outcome.n + 1, "close", NoAnswer, Returned(NoneValue))
    /\ UNCHANGED <<monitor, client_args, base_url, states_df, gets, block>>

\* with client: __enter__(), lines 240-242
Enter ==
    /\ session # "none"
    /\ block.at = "outside"
    /\ block' = Block("inside", None)
    /\ UNCHANGED <<monitor, client_args, base_url, states_df, session, closes, gets,
                   outcome>>

\* the body of the with statement raises, an exception of its own or the one its
\* newest call raised
BlockRaises(exception) ==
    /\ block = Block("inside", None)
    /\ exception = "APIError" => outcome.result.kind = "APIError"
    /\ block' = Block("inside", exception)
    /\ UNCHANGED <<monitor, client_args, base_url, states_df, session, closes, gets,
                   outcome>>

\* __exit__() that returns True
ExitSuppressing ==
    /\ block.at = "inside"
    /\ session' = "closed"
    /\ closes' = closes + 1
    /\ block' = Block("left", None)
    /\ UNCHANGED <<monitor, client_args, base_url, states_df, gets, outcome>>

\* the with statement ends, by the end of its body or by the exception raised in it:
\* __exit__(), lines 244-247, closes and returns False, so the exception goes on
Exit ==
    /\ block.at = "inside"
    /\ session' = "closed"
    /\ closes' = closes + 1
    /\ block' = Block("left", block.exception)
    /\ UNCHANGED <<monitor, client_args, base_url, states_df, gets, outcome>>

(* ------------------------------ __init__ -------------------------------- *)
\* the arguments explored: hostname, api_key (empty or not), the keys of entities in
\* declaration order (none, one or both), tz (None or a name)
Args ==
    [hostname : {"", "homeassistant.local", "ws://homeassistant.local:8123/api/websocket"},
     api_key : {"", "token"},
     entities : {<<>>, <<"a">>, <<"b">>, <<"a", "b">>, <<"b", "a">>},
     tz : {None, "UTC", "Mars/Phobos"}]

\* __init__ raises: it checks none of hostname, api_key and entities; only
\* ZoneInfo(tz), lines 147-148, can raise
InitRaises(a) == a.tz # None /\ a.tz \notin KnownZones

\* the fields as lines 135-145 set them
Fields ==
    /\ should_reconnect = FALSE
    /\ ws = 0
    /\ ws_thread = 0
    /\ message_id = 1
    /\ subscription_ids = EmptyTable
    /\ cpc = "idle"
    /\ pc = [t \in Threads |-> "unborn"]
    /\ sock = [t \in Threads |-> FALSE]
    /\ depth = [t \in Threads |-> 0]
    /\ idx = [t \in Threads |-> 0]
    /\ subscription_id = [t \in Threads |-> 0]
    /\ sent = [t \in Threads |-> <<>>]
    /\ dispatched = NoDispatch
    /\ subscription_lock = 0

\* no frame is taken on its own
NoConversion ==
    /\ to_state = NoObject
    /\ from_state = NoObject
    /\ data_type = "json"
    /\ converted = Pending
    /\ event = Pending

DefaultArgs ==
    [hostname |-> "homeassistant.local", api_key |-> "token", entities |-> entity_ids,
     tz |-> None]

\* the monitor constructed over entities, with a hostname and an api_key
Init ==
    /\ Fields
    /\ args = DefaultArgs
    /\ constructed = "yes"
    /\ NoConversion
    /\ client_args = DefaultClientArgs
    /\ NoClient

\* HassStateMonitor(hostname, api_key, entities, callback, tz)
Construct ==
    /\ constructed = "no"
    /\ constructed' = IF InitRaises(args) THEN "raised" ELSE "yes"
    /\ UNCHANGED <<program, dispatched, args, conversion, client, subscription_lock>>

Alive(t) == pc[t] \notin {"unborn", "done"}

(* ------------------------------- start() -------------------------------- *)
\* start(): no check of the current state; sets the flag and spawns a thread
Start ==
    /\ cpc = "idle"
    /\ \E t \in Threads :
          /\ ~Alive(t)
          /\ \A u \in Threads : u < t => Alive(u)
          /\ ws_thread' = t
          /\ pc' = [pc EXCEPT ![t] = "connect"]
          /\ depth' = [depth EXCEPT ![t] = 1]
    /\ should_reconnect' = TRUE
    /\ dispatched' = NoDispatch
    /\ UNCHANGED detached
    /\ UNCHANGED <<ws, message_id, subscription_ids, cpc, sock, idx, subscription_id,
                   sent>>

(* -------------------------------- stop() -------------------------------- *)
\* stop(), line 207: self.should_reconnect = False
StopBegin ==
    /\ cpc = "idle"
    /\ should_reconnect' = FALSE
    /\ cpc' = "stop_close"
    /\ dispatched' = NoDispatch
    /\ UNCHANGED detached
    /\ UNCHANGED <<ws, ws_thread, message_id, subscription_ids, pc, sock, depth, idx,
                   subscription_id, sent>>

\* WebSocketApp.close(): closes the socket when there is one
Close(app) == IF app # 0 /\ sock[app] THEN [sock EXCEPT ![app] = FALSE] ELSE sock

\* stop(), lines 209-210: if self.ws: self.ws.close()
StopClose ==
    /\ cpc = "stop_close"
    /\ sock' = Close(ws)
    /\ cpc' = "stop_clear"
    /\ dispatched' = NoDispatch
    /\ UNCHANGED detached
    /\ UNCHANGED <<should_reconnect, ws, ws_thread, message_id, subscription_ids, pc,
                   depth, idx, subscription_id, sent>>

\* stop(), lines 212-213: self.subscription_ids.clear()
StopClear ==
    /\ cpc = "stop_clear"
    /\ subscription_ids' = EmptyTable
    /\ cpc' = "stop_join"
    /\ dispatched' = NoDispatch
    /\ UNCHANGED detached
    /\ UNCHANGED <<should_reconnect, ws, ws_thread, message_id, pc, sock, depth, idx,
                   subscription_id, sent>>

\* stop() with a join() that has no timeout: it returns only once no thread is alive
StopJoinUntimed ==
    /\ cpc = "stop_join"
    /\ \A t \in Threads : ~Alive(t)
    /\ cpc' = "idle"
    /\ dispatched' = NoDispatch
    /\ UNCHANGED detached
    /\ UNCHANGED <<should_reconnect, ws, ws_thread, message_id, subscription_ids, pc,
                   sock, depth, idx, subscription_id, sent>>

\* stop(), lines 216-228: join(timeout) returns when the thread ended or the
\* timeout elapsed; either way stop() returns
StopJoin ==
    /\ cpc = "stop_join"
    /\ cpc' = "idle"
    /\ dispatched' = NoDispatch
    /\ UNCHANGED detached
    /\ UNCHANGED <<should_reconnect, ws, ws_thread, message_id, subscription_ids, pc,
                   sock, depth, idx, subscription_id, sent>>

(* ------------------------------ _connect() ------------------------------ *)
\* _connect(), lines 246-253: self.ws = WebSocketApp(...), a new socket-less app
Connect(t) ==
    /\ pc[t] = "connect"
    /\ ws' = t
    /\ pc' = [pc EXCEPT ![t] = "run"]
    /\ sock' = [sock EXCEPT ![t] = FALSE]
    /\ sent' = [sent EXCEPT ![t] = <<>>]
    /\ dispatched' = NoDispatch
    /\ UNCHANGED detached
    /\ UNCHANGED <<should_reconnect, ws_thread, message_id, subscription_ids, cpc,
                   depth, idx, subscription_id>>

\* _connect(), line 254: run_forever() opens the socket (on_open) and reads, or
\* fails to connect (on_error, then the teardown that ends in on_close)
RunForever(t) ==
    /\ pc[t] = "run"
    /\ \E connected \in BOOLEAN : sock' = [sock EXCEPT ![t] = connected]
    /\ pc' = [pc EXCEPT ![t] = "read"]
    /\ dispatched' = NoDispatch
    /\ UNCHANGED detached
    /\ UNCHANGED <<should_reconnect, ws, ws_thread, message_id, subscription_ids, cpc,
                   depth, idx, subscription_id, sent>>

(* ----------------------------- the transport ---------------------------- *)
\* ids the running loops of _subscribe_to_entities will still take
Reserved(t) ==
    IF pc[t] \in {"sub_insert", "sub_locked", "sub_send"}
    THEN Len(entity_ids) - idx[t] + 1 ELSE 0

RECURSIVE ReservedUpTo(_)
ReservedUpTo(n) == IF n = 0 THEN 0 ELSE Reserved(n) + ReservedUpTo(n - 1)

\* the server or the network ends the connection (error or close frame)
TransportDown(t) ==
    /\ pc[t] \in {"read", "sub_insert", "sub_send"}
    /\ sock[t]
    /\ sock' = [sock EXCEPT ![t] = FALSE]
    /\ dispatched' = NoDispatch
    /\ UNCHANGED detached
    /\ UNCHANGED <<should_reconnect, ws, ws_thread, message_id, subscription_ids, cpc,
                   pc, depth, idx, subscription_id, sent>>

(* ----------------------------- _on_message() ---------------------------- *)
\* lines 499-530: the StateChangeEvent built from a frame of entity_id; a frame with a
\* missing field raises KeyError there
StateChangeEvent(m, entity_id) ==
    IF m.type = "event_incomplete" THEN ErrorOutput
    ELSE [kind |-> "event", entity_id |-> entity_id, subscription_id |-> m.id,
          data_type |-> entities[entity_id]]

\* _handle_state_change() without the return of lines 496-497: an id the table does
\* not hold falls back to the first entity
HandleStateChangeUnchecked(m, raised) ==
    IF m.type = "event_no_id" THEN [output |-> ErrorOutput, survives |-> TRUE]
    ELSE LET entity_id == IF subscription_ids[m.id] = None THEN entity_ids[1]
                          ELSE subscription_ids[m.id]
         IN  [output |-> StateChangeEvent(m, entity_id), survives |-> TRUE]

\* _handle_state_change() without the try/except of lines 533-539: a callback that
\* raises ends the read loop
HandleStateChangeUncaught(m, raised) ==
    IF m.type = "event_no_id" THEN [output |-> ErrorOutput, survives |-> TRUE]
    ELSE LET entity_id == subscription_ids[m.id]
         IN  IF entity_id = None
             THEN [output |-> NoOutput, survives |-> TRUE]
             ELSE [output |-> StateChangeEvent(m, entity_id), survives |-> ~raised]

\* _handle_state_change() holding back the events of every entity but the first
\* declared one instead of calling the callback for each frame as it is read
HandleStateChangeSkipping(m, raised) ==
    IF m.type = "event_no_id" THEN [output |-> ErrorOutput, survives |-> TRUE]
    ELSE LET entity_id == subscription_ids[m.id]
         IN  IF entity_id = None \/ entity_id # entity_ids[1]
             THEN [output |-> NoOutput, survives |-> TRUE]
             ELSE [output |-> StateChangeEvent(m, entity_id), survives |-> TRUE]

\* _handle_state_change(): the StateChangeEvent handed to the callback (NoOutput when
\* the frame is dropped, ErrorOutput when message['id'], line 492, or a later lookup
\* raises) and whether the read loop goes on after it
HandleStateChange(m, raised) ==
    IF m.type = "event_no_id" THEN [output |-> ErrorOutput, survives |-> TRUE]
    ELSE LET entity_id == subscription_ids[m.id]
         IN  IF entity_id = None
             THEN [output |-> NoOutput, survives |-> TRUE]
             ELSE [output |-> StateChangeEvent(m, entity_id), survives |-> TRUE]

\* _on_message() where an exception leaving the handler ends run_forever()
OnMessageUncaught(m, raised) ==
    IF m.type \in {"undecodable", "untyped"} THEN [output |-> ErrorOutput, survives |-> FALSE]
    ELSE IF m.type = "auth_required" THEN [output |-> AuthFrame, survives |-> TRUE]
    ELSE IF m.type \in {"event", "event_no_id", "event_incomplete"}
         THEN [output |-> HandleStateChange(m, raised).output,
               survives |-> HandleStateChange(m, raised).output # ErrorOutput]
    ELSE [output |-> NoOutput, survives |-> TRUE]

\* _on_message() that answers auth_invalid, too, with the auth frame
OnMessageReauthenticating(m, raised) ==
    IF m.type \in {"undecodable", "untyped"} THEN [output |-> ErrorOutput, survives |-> TRUE]
    ELSE IF m.type \in {"auth_required", "auth_invalid"}
         THEN [output |-> AuthFrame, survives |-> TRUE]
    ELSE IF m.type \in {"event", "event_no_id", "event_incomplete"}
         THEN HandleStateChange(m, raised)
    ELSE [output |-> NoOutput, survives |-> TRUE]

\* _on_message() that gives up the connection when a subscription failed
OnMessageFailingOnResult(m, raised) ==
    IF m.type \in {"undecodable", "untyped"} THEN [output |-> ErrorOutput, survives |-> TRUE]
    ELSE IF m.type = "auth_required" THEN [output |-> AuthFrame, survives |-> TRUE]
    ELSE IF m.type \in {"event", "event_no_id", "event_incomplete"}
         THEN HandleStateChange(m, raised)
    ELSE IF m.type = "result_failure" THEN [output |-> NoOutput, survives |-> FALSE]
    ELSE [output |-> NoOutput, survives |-> TRUE]

\* an _on_message whose chain of branches ends in an else that raises
OnMessageRejectingUnknown(m, raised) ==
    IF m.type \in {"undecodable", "untyped"} THEN [output |-> ErrorOutput, survives |-> TRUE]
    ELSE IF m.type = "auth_required" THEN [output |-> AuthFrame, survives |-> TRUE]
    ELSE IF m.type \in {"event", "event_no_id", "event_incomplete"}
         THEN HandleStateChange(m, raised)
    ELSE IF m.type \in {"result", "result_failure"}
         THEN [output |-> NoOutput, survives |-> TRUE]
    ELSE [output |-> ErrorOutput, survives |-> TRUE]

\* _on_message() for every frame type but auth_ok: what it sends or calls. json.loads
\* (line 287) raises on text that is not JSON and msg['type'] (line 289) on a frame
\* without a type; WebSocketApp._callback catches what the handler raises and
\* run_forever() reads on. A result frame is logged, lines 297-301, and so is no
\* output, like a frame of a type the handler has no branch for
OnMessage(m, raised) ==
    IF m.type \in {"undecodable", "untyped"} THEN [output |-> ErrorOutput, survives |-> TRUE]
    ELSE IF m.type = "auth_required" THEN [output |-> AuthFrame, survives |-> TRUE]
    ELSE IF m.type \in {"event", "event_no_id", "event_incomplete"}
         THEN HandleStateChange(m, raised)
    ELSE [output |-> NoOutput, survives |-> TRUE]

\* run_forever() reads frame m from the open socket and calls _on_message(); raised
\* says whether the user's callback, if called, raises
Recv(t, m, raised) ==
    /\ pc[t] = "read"
    /\ sock[t]
    /\ m.type # "auth_ok"
    /\ OnMessage(m, raised).output.kind # "event" => ~raised
    /\ dispatched' = [thread |-> t, frame |-> m, output |-> OnMessage(m, raised).output,
                      raised |-> raised]
    /\ sock' = IF OnMessage(m, raised).survives THEN sock ELSE [sock EXCEPT ![t] = FALSE]
    /\ UNCHANGED detached
    /\ UNCHANGED <<should_reconnect, ws, ws_thread, message_id, subscription_ids, cpc,
                   pc, depth, idx, subscription_id, sent>>

\* run_forever() reads an auth_ok frame: _on_message() enters the loop of
\* _subscribe_to_entities
RecvAuthOk(t) ==
    /\ pc[t] = "read"
    /\ sock[t]
    /\ message_id + ReservedUpTo(Cardinality(Threads)) + Len(entity_ids) - 1 <= MaxMessageId
    /\ pc' = [pc EXCEPT ![t] = "sub_insert"]
    /\ idx' = [idx EXCEPT ![t] = 1]
    /\ dispatched' = [thread |-> t, frame |-> AuthOk, output |-> NoOutput, raised |-> FALSE]
    /\ UNCHANGED detached
    /\ UNCHANGED <<should_reconnect, ws, ws_thread, message_id, subscription_ids, cpc,
                   sock, depth, subscription_id, sent>>

\* run_forever() reads another auth_ok frame on a socket on which a pass of
\* _subscribe_to_entities was made already: _on_message() enters the loop again, with
\* the table as it is
RecvAuthOkAgain(t) ==
    /\ pc[t] = "read"
    /\ sock[t]
    /\ Len(sent[t]) >= Len(entity_ids)
    /\ message_id + ReservedUpTo(Cardinality(Threads)) + Len(entity_ids) - 1
           <= MaxMessageId + Len(entity_ids)
    /\ pc' = [pc EXCEPT ![t] = "sub_insert"]
    /\ idx' = [idx EXCEPT ![t] = 1]
    /\ dispatched' = [thread |-> t, frame |-> AuthOk, output |-> NoOutput, raised |-> FALSE]
    /\ UNCHANGED detached
    /\ UNCHANGED <<should_reconnect, ws, ws_thread, message_id, subscription_ids, cpc,
                   sock, depth, subscription_id, sent>>

(* ------------------------ _subscribe_to_entities() ---------------------- *)
\* _subscribe_to_entities() that takes the id but leaves lines 322-323, the entry in
\* the table, for after the send
SubInsertUnrecorded(t) ==
    /\ pc[t] = "sub_insert"
    /\ subscription_id' = [subscription_id EXCEPT ![t] = message_id]
    /\ pc' = [pc EXCEPT ![t] = "sub_send"]
    /\ dispatched' = NoDispatch
    /\ UNCHANGED detached
    /\ UNCHANGED <<should_reconnect, ws, ws_thread, message_id, subscription_ids, cpc, sock,
                   depth, idx, sent>>

\* _subscribe_to_entities() that records the entity under the id after the counter's
SubInsertAhead(t) ==
    /\ pc[t] = "sub_insert"
    /\ subscription_id' = [subscription_id EXCEPT ![t] = message_id]
    /\ subscription_ids' = [subscription_ids EXCEPT ![message_id + 1] = entity_ids[idx[t]]]
    /\ pc' = [pc EXCEPT ![t] = "sub_send"]
    /\ dispatched' = NoDispatch
    /\ UNCHANGED detached
    /\ UNCHANGED <<should_reconnect, ws, ws_thread, message_id, cpc, sock, depth, idx,
                   sent>>

\* lines 321-323: subscription_id = self.message_id; table[subscription_id] = entity_id
SubInsert(t) ==
    /\ pc[t] = "sub_insert"
    /\ subscription_id' = [subscription_id EXCEPT ![t] = message_id]
    /\ subscription_ids' = [subscription_ids EXCEPT ![message_id] = entity_ids[idx[t]]]
    /\ pc' = [pc EXCEPT ![t] = "sub_send"]
    /\ dispatched' = NoDispatch
    /\ UNCHANGED detached
    /\ UNCHANGED <<should_reconnect, ws, ws_thread, message_id, cpc, sock, depth, idx,
                   sent>>

\* _subscribe_to_entities() without the self.message_id += 1 of line 335
SubSendNoIncrement(t) ==
    /\ pc[t] = "sub_send"
    /\ IF sock[t]
       THEN /\ sent' = [sent EXCEPT ![t] =
                          Append(@, [id |-> subscription_id[t], entity_id |-> entity_ids[idx[t]]])]
            /\ IF idx[t] < Len(entity_ids)
               THEN /\ idx' = [idx EXCEPT ![t] = @ + 1]
                    /\ pc' = [pc EXCEPT ![t] = "sub_insert"]
               ELSE /\ idx' = [idx EXCEPT ![t] = 0]
                    /\ pc' = [pc EXCEPT ![t] = "read"]
       ELSE /\ idx' = [idx EXCEPT ![t] = 0]
            /\ pc' = [pc EXCEPT ![t] = "read"]
            /\ UNCHANGED sent
    /\ subscription_id' = [subscription_id EXCEPT ![t] = 0]
    /\ dispatched' = NoDispatch
    /\ UNCHANGED detached
    /\ UNCHANGED <<should_reconnect, ws, ws_thread, message_id, subscription_ids, cpc, sock,
                   depth>>

\* lines 325-335: ws.send(subscribe_trigger); self.message_id += 1; a send on a closed
\* socket raises and ends the handler
SubSend(t) ==
    /\ pc[t] = "sub_send"
    /\ IF sock[t]
       THEN /\ sent' = [sent EXCEPT ![t] =
                          Append(@, [id |-> subscription_id[t], entity_id |-> entity_ids[idx[t]]])]
            /\ message_id' = message_id + 1
            /\ IF idx[t] < Len(entity_ids)
               THEN /\ idx' = [idx EXCEPT ![t] = @ + 1]
                    /\ pc' = [pc EXCEPT ![t] = "sub_insert"]
               ELSE /\ idx' = [idx EXCEPT ![t] = 0]
                    /\ pc' = [pc EXCEPT ![t] = "read"]
       ELSE /\ idx' = [idx EXCEPT ![t] = 0]
            /\ pc' = [pc EXCEPT ![t] = "read"]
            /\ UNCHANGED <<sent, message_id>>
    /\ subscription_id' = [subscription_id EXCEPT ![t] = 0]
    /\ dispatched' = NoDispatch
    /\ UNCHANGED detached
    /\ UNCHANGED <<should_reconnect, ws, ws_thread, subscription_ids, cpc, sock, depth>>

(* ------------------------------ _on_close() ----------------------------- *)
\* _on_close(), lines 455-458, called by run_forever()'s teardown once the socket is
\* closed: clears the table and reads the flag
OnClose(t) ==
    /\ pc[t] = "read"
    /\ ~sock[t]
    /\ subscription_ids' = EmptyTable
    /\ IF should_reconnect
       THEN pc' = [pc EXCEPT ![t] = "sleep"] /\ depth' = depth
       ELSE pc' = [pc EXCEPT ![t] = "done"] /\ depth' = [depth EXCEPT ![t] = 0]
    /\ sent' = [sent EXCEPT ![t] = <<>>]
    /\ dispatched' = NoDispatch
    /\ UNCHANGED detached
    /\ UNCHANGED <<should_reconnect, ws, ws_thread, message_id, cpc, sock, idx,
                   subscription_id>>

\* _on_close(), lines 460-461: after the sleep, self._connect() one frame deeper; past
\* the interpreter's recursion limit the call raises and the thread unwinds
Reconnect(t) ==
    /\ pc[t] = "sleep"
    /\ IF depth[t] < RecursionLimit
       THEN /\ depth' = [depth EXCEPT ![t] = @ + 1]
            /\ ws' = t
            /\ pc' = [pc EXCEPT ![t] = "run"]
            /\ sent' = [sent EXCEPT ![t] = <<>>]
       ELSE /\ depth' = [depth EXCEPT ![t] = 0]
            /\ pc' = [pc EXCEPT ![t] = "done"]
            /\ UNCHANGED <<ws, sent>>
    /\ dispatched' = NoDispatch
    /\ UNCHANGED detached
    /\ UNCHANGED <<should_reconnect, ws_thread, message_id, subscription_ids, cpc, sock,
                   idx, subscription_id>>

(* ------------------------- _subscription_lock --------------------------- *)
\* the four accesses to the table step by step: the with statement takes the lock when
\* it is free, and the access that follows releases it

\* the contexts inside a with self._subscription_lock
Inside ==
    {t \in Threads : pc[t] \in {"sub_locked", "close_locked", "lookup_locked"}}
        \cup (IF cpc = "stop_locked" THEN {Caller} ELSE {})

\* a with self._subscription_lock that takes the lock whoever holds it
StopLockBarging ==
    /\ cpc = "stop_clear"
    /\ subscription_lock' = Caller
    /\ cpc' = "stop_locked"
    /\ dispatched' = NoDispatch
    /\ UNCHANGED <<args, constructed, conversion, client>>
    /\ UNCHANGED <<should_reconnect, ws, ws_thread, message_id, subscription_ids, pc, sock,
                   depth, idx, subscription_id, sent>>

\* stop(), line 212: with self._subscription_lock
StopLock ==
    /\ cpc = "stop_clear"
    /\ subscription_lock = 0
    /\ subscription_lock' = Caller
    /\ cpc' = "stop_locked"
    /\ dispatched' = NoDispatch
    /\ UNCHANGED <<args, constructed, conversion, client>>
    /\ UNCHANGED <<should_reconnect, ws, ws_thread, message_id, subscription_ids, pc, sock,
                   depth, idx, subscription_id, sent>>

\* stop(), line 213: self.subscription_ids.clear(), and the end of the with
StopClearLocked ==
    /\ cpc = "stop_locked"
    /\ subscription_ids' = EmptyTable
    /\ subscription_lock' = 0
    /\ cpc' = "stop_join"
    /\ dispatched' = NoDispatch
    /\ UNCHANGED <<args, constructed, conversion, client>>
    /\ UNCHANGED <<should_reconnect, ws, ws_thread, message_id, pc, sock, depth, idx,
                   subscription_id, sent>>

\* lines 321-322: subscription_id = self.message_id; with self._subscription_lock
SubLock(t) ==
    /\ pc[t] = "sub_insert"
    /\ subscription_lock = 0
    /\ subscription_lock' = t
    /\ subscription_id' = [subscription_id EXCEPT ![t] = message_id]
    /\ pc' = [pc EXCEPT ![t] = "sub_locked"]
    /\ dispatched' = NoDispatch
    /\ UNCHANGED <<args, constructed, conversion, client>>
    /\ UNCHANGED <<should_reconnect, ws, ws_thread, message_id, subscription_ids, cpc, sock,
                   depth, idx, sent>>

\* line 323: self.subscription_ids[subscription_id] = entity_id, and the end of the with
SubInsertLocked(t) ==
    /\ pc[t] = "sub_locked"
    /\ subscription_ids' = [subscription_ids EXCEPT ![subscription_id[t]] = entity_ids[idx[t]]]
    /\ subscription_lock' = 0
    /\ pc' = [pc EXCEPT ![t] = "sub_send"]
    /\ dispatched' = NoDispatch
    /\ UNCHANGED <<args, constructed, conversion, client>>
    /\ UNCHANGED <<should_reconnect, ws, ws_thread, message_id, cpc, sock, depth, idx,
                   subscription_id, sent>>

\* _on_close(), line 456: with self._subscription_lock
OnCloseLock(t) ==
    /\ pc[t] = "read"
    /\ ~sock[t]
    /\ subscription_lock = 0
    /\ subscription_lock' = t
    /\ pc' = [pc EXCEPT ![t] = "close_locked"]
    /\ dispatched' = NoDispatch
    /\ UNCHANGED <<args, constructed, conversion, client>>
    /\ UNCHANGED <<should_reconnect, ws, ws_thread, message_id, subscription_ids, cpc, sock,
                   depth, idx, subscription_id, sent>>

\* _on_close(), lines 457-458: the table cleared, the end of the with, the flag read
OnCloseLocked(t) ==
    /\ pc[t] = "close_locked"
    /\ subscription_ids' = EmptyTable
    /\ subscription_lock' = 0
    /\ IF should_reconnect
       THEN pc' = [pc EXCEPT ![t] = "sleep"] /\ depth' = depth
       ELSE pc' = [pc EXCEPT ![t] = "done"] /\ depth' = [depth EXCEPT ![t] = 0]
    /\ sent' = [sent EXCEPT ![t] = <<>>]
    /\ dispatched' = NoDispatch
    /\ UNCHANGED <<args, constructed, conversion, client>>
    /\ UNCHANGED <<should_reconnect, ws, ws_thread, message_id, cpc, sock, idx,
                   subscription_id>>

\* run_forever() reads a frame that is not an event: _on_message() does not come to
\* the table
RecvOther(t, m) == m.type # "event" /\ Recv(t, m, FALSE)

\* run_forever() reads an event frame; _handle_state_change(), line 493: with
\* self._subscription_lock
LookupLock(t) ==
    /\ pc[t] = "read"
    /\ sock[t]
    /\ subscription_lock = 0
    /\ subscription_lock' = t
    /\ pc' = [pc EXCEPT ![t] = "lookup_locked"]
    /\ dispatched' = NoDispatch
    /\ UNCHANGED <<args, constructed, conversion, client>>
    /\ UNCHANGED <<should_reconnect, ws, ws_thread, message_id, subscription_ids, cpc, sock,
                   depth, idx, subscription_id, sent>>

\* line 494: entity_id = self.subscription_ids.get(subscription_id) for the id of the
\* frame m read, the end of the with, and the rest of the handler, lines 496-539
LookupLocked(t, m, raised) ==
    /\ pc[t] = "lookup_locked"
    /\ m.type = "event"
    /\ HandleStateChange(m, raised).output.kind # "event" => ~raised
    /\ dispatched' = [thread |-> t, frame |-> m,
                      output |-> HandleStateChange(m, raised).output, raised |-> raised]
    /\ subscription_lock' = 0
    /\ pc' = [pc EXCEPT ![t] = "read"]
    /\ UNCHANGED <<args, constructed, conversion, client>>
    /\ UNCHANGED <<should_reconnect, ws, ws_thread, message_id, subscription_ids, cpc,
                   sock, depth, idx, subscription_id, sent>>

(* --------------------------- the specifications ------------------------- *)
ThreadStep(t) ==
    \/ Connect(t)
    \/ RunForever(t)
    \/ SubInsert(t)
    \/ SubSend(t)
    \/ OnClose(t)
    \/ Reconnect(t)

StopStep == StopClose \/ StopClear \/ StopJoin

Next ==
    \/ Start
    \/ StopBegin
    \/ StopStep
    \/ \E t \in Threads : ThreadStep(t)
    \/ \E t \in Threads : \E m \in Frames : \E raised \in BOOLEAN : Recv(t, m, raised)
    \/ \E t \in Threads : RecvAuthOk(t)
    \/ \E t \in Threads : TransportDown(t)

Spec == Init /\ [][Next]_vars

\* the scheduler runs every thread that can take a step, and stop() runs to its end;
\* nothing obliges the server to send a frame or to end the connection
FairSpec ==
    /\ Spec
    /\ \A t \in Threads : WF_vars(ThreadStep(t))
    /\ WF_vars(StopStep)

\* the monitor used as its documentation asks: start() is called only while no
\* monitoring thread is alive
StartWhenIdle == (\A t \in Threads : ~Alive(t)) /\ Start

SoloNext ==
    \/ StartWhenIdle
    \/ StopBegin
    \/ StopStep
    \/ \E t \in Threads : ThreadStep(t)
    \/ \E t \in Threads : \E m \in Frames : \E raised \in BOOLEAN : Recv(t, m, raised)
    \/ \E t \in Threads : RecvAuthOk(t)
    \/ \E t \in Threads : TransportDown(t)

SoloSpec == Init /\ [][SoloNext]_vars

FairSoloSpec ==
    /\ SoloSpec
    /\ \A t \in Threads : WF_vars(ThreadStep(t))
    /\ WF_vars(StopStep)

\* one monitoring thread and a peer that also sends what no server should, the
\* malformed frames, and a result frame for any id
AnyFrameNext ==
    \/ SoloNext
    \/ \E t \in Threads : \E m \in Malformed \cup Results \cup UnknownFrames : Recv(t, m, FALSE)

AnyFrameSpec == Init /\ [][AnyFrameNext]_vars

\* that peer sending auth_ok more than once in a session, too
RepeatedAuthNext ==
    \/ AnyFrameNext
    \/ \E t \in Threads : RecvAuthOkAgain(t)

RepeatedAuthSpec == Init /\ [][RepeatedAuthNext]_vars

\* the monitor with the accesses to the table step by step: one monitoring thread at
\* a time, and stop() on the caller's thread
LockThreadStep(t) ==
    \/ Connect(t)
    \/ RunForever(t)
    \/ SubLock(t)
    \/ SubInsertLocked(t)
    \/ SubSend(t)
    \/ OnCloseLock(t)
    \/ OnCloseLocked(t)
    \/ Reconnect(t)
    \/ \E m \in Frames : \E raised \in BOOLEAN : LookupLocked(t, m, raised)

LockStopStep == StopClose \/ StopLock \/ StopClearLocked \/ StopJoin

LockNext ==
    \/ StartWhenIdle
    \/ StopBegin
    \/ LockStopStep
    \/ \E t \in Threads : LockThreadStep(t)
    \/ \E t \in Threads : \E m \in Frames : RecvOther(t, m)
    \/ \E t \in Threads : LookupLock(t)
    \/ \E t \in Threads : RecvAuthOk(t)
    \/ \E t \in Threads : TransportDown(t)

LockSpec == Init /\ [][LockNext]_vars

\* every thread that can take a step takes one, the holder of the lock among them
FairLockSpec ==
    /\ LockSpec
    /\ \A t \in Threads : WF_vars(LockThreadStep(t))
    /\ WF_vars(LockStopStep)

\* construction on its own: any arguments, the constructor, then start() on the
\* object it returned
ConstructInit ==
    /\ Fields
    /\ args \in Args
    /\ constructed = "no"
    /\ NoConversion
    /\ client_args = DefaultClientArgs
    /\ NoClient

StartConstructed == constructed = "yes" /\ Start

ConstructNext == Construct \/ StartConstructed

ConstructSpec == ConstructInit /\ [][ConstructNext]_vars

\* the values of one event frame on their own: any to_state, a from_state, any
\* declared type, tz unset or set; _convert_value and _handle_state_change applied
ToStates == {NoObject} \cup {StateObject(v) : v \in RawValues}
FromStates ==
    {NoObject, StateObject(Str(Unknown)), StateObject(Str(<<"2", "1", ".", "5">>)),
     StateObject(Str(<<"i", "n", "f">>))}

ConvertInit ==
    /\ Fields
    /\ args \in {[DefaultArgs EXCEPT !.tz = z] : z \in {None} \cup KnownZones}
    /\ constructed = "yes"
    /\ to_state \in ToStates
    /\ from_state \in FromStates
    /\ data_type \in DataTypes
    /\ converted = Pending
    /\ event = Pending
    /\ client_args = DefaultClientArgs
    /\ NoClient

\* self._convert_value(to_state['state'] if to_state else None, data_type)
CallConvertValue ==
    /\ converted = Pending
    /\ converted' = ConvertValue(RawState(to_state), data_type, args.tz)
    /\ UNCHANGED <<program, dispatched, args, constructed, to_state, from_state,
                   data_type, event, client, subscription_lock>>

\* _handle_state_change(), lines 499-530, on the frame of a tracked entity
CallHandleStateChange ==
    /\ event = Pending
    /\ event' = BuildEvent(to_state, from_state, data_type, args.tz)
    /\ UNCHANGED <<program, dispatched, args, constructed, to_state, from_state,
                   data_type, converted, client, subscription_lock>>

ConvertNext == CallConvertValue \/ CallHandleStateChange

ConvertSpec == ConvertInit /\ [][ConvertNext]_vars

\* the client on its own: any arguments, the constructor, then calls in any order
\* against a server that answers anything, inside a with statement or outside one
ClientInit ==
    /\ Fields
    /\ args = DefaultArgs
    /\ constructed = "yes"
    /\ NoConversion
    /\ client_args \in ClientArgs
    /\ NoClient

ClientNext ==
    \/ NewClient
    \/ \E endpoint \in Endpoints : \E answer \in Answers : \E modern \in BOOLEAN :
           GetData(endpoint, answer, modern)
    \/ \E answer \in Answers : \E modern \in BOOLEAN : GetStates(answer, modern)
    \/ CloseClient
    \/ Enter
    \/ \E exception \in {"ValueError", "KeyboardInterrupt", "APIError"} :
           BlockRaises(exception)
    \/ Exit

ClientSpec == ClientInit /\ [][ClientNext]_vars

\* the client asked for states: get_states() and the accessors over it, in any order,
\* against a server that answers anything
StatesNext ==
    \/ NewClient
    \/ \E answer \in Answers : \E modern \in BOOLEAN : GetStates(answer, modern)
    \/ \E entity_id \in {"a", "c"} : \E answer \in Answers : \E modern \in BOOLEAN :
           GetStateAsString(entity_id, answer, modern)
    \/ \E entity_id \in {"a", "c"} : \E attribute_name \in {"unit", "icon"} :
           \E answer \in Answers : \E modern \in BOOLEAN :
               GetStateAttributeAsString(entity_id, attribute_name, answer, modern)
    \/ CloseClient

StatesSpec == ClientInit /\ [][StatesNext]_vars

(* ------------------------------- claims --------------------------------- *)
\* C1: at any time at most one monitoring thread is alive and at most one socket is
\* open, so no session starts while another session's socket is still open.
C1_OneContextOneSession ==
    /\ Cardinality({t \in Threads : Alive(t)}) <= 1
    /\ Cardinality({t \in Threads : sock[t]}) <= 1

\* C2: while should_reconnect is false (stop() was called and start() was not called
\* since), no step creates a new WebSocketApp, whatever the thread was doing when
\* stop() ran, the reconnect sleep included.
C2_NoSessionAfterStop ==
    [][~should_reconnect => \A t \in Threads : ~(pc[t] # "run" /\ pc'[t] = "run")]_vars

\* C3: once should_reconnect is false, every monitoring thread eventually ends, unless
\* start() is called again.
C3_StopTerminates ==
    (~should_reconnect) ~> (should_reconnect \/ \A t \in Threads : ~Alive(t))

\* C4: while the monitor is running (flag set, newest thread alive) no step spawns
\* another monitoring thread: start() is refused.
C4_StartWhileRunningRefused ==
    [][(should_reconnect /\ ws_thread # 0 /\ Alive(ws_thread))
          => \A t \in Threads : ~Alive(t) => ~Alive(t)']_vars

\* C5: a thread that found should_reconnect true on a disconnect (it is in the
\* reconnect sleep) goes on to a new session and to nothing else, however many
\* reconnects it has made.
C5_ReconnectsForever ==
    [][\A t \in Threads : pc[t] = "sleep" => pc'[t] \in {"sleep", "run"}]_vars

\* C6: on every socket the first subscribe request carries id 1 and each later one a
\* strictly larger id.
C6_IdsFromOnePerSession ==
    \A t \in Threads :
        sent[t] # <<>> =>
            /\ sent[t][1].id = 1
            /\ \A i \in 1..(Len(sent[t]) - 1) : sent[t][i].id < sent[t][i + 1].id

\* C7: the table was emptied by every disconnect, so it is empty whenever a session is
\* about to issue its first subscription.
C7_TableEmptyBeforeSubscribing ==
    \A t \in Threads :
        (pc[t] = "sub_insert" /\ idx[t] = 1 /\ sent[t] = <<>>) => subscription_ids = EmptyTable

\* C8: an event frame dispatched on a socket on which a subscribe request with the
\* frame's id was sent reaches the callback with that request's entity and the
\* entity's declared type; once the socket's _on_close ran, the ids sent on it are
\* absent from the table.
C8_IdResolvesUntilDisconnect ==
    [][/\ dispatched'.frame.type = "event" =>
            \A i \in DOMAIN sent[dispatched'.thread] :
                sent[dispatched'.thread][i].id = dispatched'.frame.id =>
                    dispatched'.output =
                        [kind |-> "event",
                         entity_id |-> sent[dispatched'.thread][i].entity_id,
                         subscription_id |-> dispatched'.frame.id,
                         data_type |-> entities[sent[dispatched'.thread][i].entity_id]]
       /\ \A t \in Threads :
            (pc[t] = "read" /\ pc'[t] \in {"sleep", "done"}) =>
                \A i \in DOMAIN sent[t] : subscription_ids'[sent[t][i].id] = None]_vars

\* C9: the dispatch of an event frame whose id is absent from the table calls no
\* callback and changes nothing.
C9_UntrackedDropped ==
    [][(dispatched'.frame.type = "event" /\ subscription_ids[dispatched'.frame.id] = None)
          => (dispatched'.output = NoOutput /\ UNCHANGED program)]_vars

\* C9, the case: an event frame carrying an id that an earlier session of the thread
\* was given has just been dropped in a session after a reconnect.
C9_Witness ==
    /\ dispatched.frame.type = "event"
    /\ dispatched.output = NoOutput
    /\ dispatched.frame.id < message_id
    /\ depth[dispatched.thread] >= 2
    /\ sock[dispatched.thread]

\* C10: a callback that raises changes nothing and leaves the thread reading its open
\* socket, and every event frame whose id is in the table reaches the callback with
\* the table's entity.
C10_CallbackFailureIsolated ==
    [][/\ dispatched'.raised =>
            /\ UNCHANGED program
            /\ pc'[dispatched'.thread] = "read"
            /\ sock'[dispatched'.thread]
       /\ (dispatched'.frame.type = "event" /\ subscription_ids[dispatched'.frame.id] # None) =>
            /\ dispatched'.output.kind = "event"
            /\ dispatched'.output.entity_id = subscription_ids[dispatched'.frame.id]]_vars

\* C10, the case: the callback has just raised on an event of sensor.a while sensor.b
\* is tracked on the same open socket.
C10_Witness ==
    /\ dispatched.raised
    /\ dispatched.output.entity_id = "a"
    /\ pc[dispatched.thread] = "read"
    /\ sock[dispatched.thread]
    /\ \E i \in DOMAIN sent[dispatched.thread] : sent[dispatched.thread][i].entity_id = "b"
    /\ \E k \in Ids : subscription_ids[k] = "b"

\* C11: within a session every event frame whose id is in the table reaches the
\* callback in the step that reads it, once, as that frame's own event and on the
\* thread that read it from its open socket; no other step calls the callback, so the
\* callback sees the frames in the order the socket delivered them.
C11_DeliveredInArrivalOrder ==
    [][/\ (dispatched'.frame.type = "event" /\ subscription_ids[dispatched'.frame.id] # None) =>
            /\ dispatched'.output.kind = "event"
            /\ dispatched'.output.subscription_id = dispatched'.frame.id
       /\ dispatched'.output.kind = "event" =>
            /\ dispatched'.frame.type = "event"
            /\ dispatched'.output.subscription_id = dispatched'.frame.id
            /\ pc[dispatched'.thread] = "read"
            /\ sock[dispatched'.thread]
            /\ pc'[dispatched'.thread] = "read"]_vars

\* C11, the case: the event of the second declared entity has just been handed to the
\* callback on a socket on which both entities are subscribed.
C11_Witness ==
    /\ dispatched.output.kind = "event"
    /\ dispatched.output.entity_id = entity_ids[2]
    /\ ~dispatched.raised
    /\ Len(sent[dispatched.thread]) = Len(entity_ids)
    /\ subscription_ids[dispatched.frame.id] = entity_ids[2]

C13_StoppedIsTerminated ==
    (cpc = "idle" /\ ~should_reconnect) =>
        (subscription_ids = EmptyTable /\ \A t \in Threads : ~sock[t])

\* C14: a monitor whose hostname, api_key or entities is empty is never constructed,
\* so no thread is ever started for it.
C14_EmptyConfigurationRefused ==
    (args.hostname = "" \/ args.api_key = "" \/ args.entities = <<>>) =>
        (constructed # "yes" /\ \A t \in Threads : ~Alive(t))

\* C15: the dispatch of an auth_invalid frame on a socket on which nothing was
\* subscribed yet ends the session: the thread's socket is closed by that step, so no
\* subscribe request can follow on it.
C15_AuthFailureDisconnects ==
    [][(dispatched'.frame.type = "auth_invalid" /\ sent[dispatched'.thread] = <<>>) =>
          ~sock'[dispatched'.thread]]_vars

\* C16: on every socket the subscribe requests of one pass of _subscribe_to_entities
\* go out one per entity in the order of entity_ids, each with a larger id than the
\* one before; a thread back in its read loop on an open socket has sent a whole pass;
\* and the requests of the first pass ever made carry the ids 1, 2, ...
C16_OneSubscribePerEntityInOrder ==
    \A t \in Threads :
        /\ \A i \in DOMAIN sent[t] :
              sent[t][i].entity_id = entity_ids[((i - 1) % Len(entity_ids)) + 1]
        /\ \A i \in 1..(Len(sent[t]) - 1) : sent[t][i].id < sent[t][i + 1].id
        /\ (pc[t] = "read" /\ sock[t]) => Len(sent[t]) % Len(entity_ids) = 0
        /\ pc[t] \in {"sub_insert", "sub_send"} =>
              Len(sent[t]) % Len(entity_ids) = idx[t] - 1
        /\ (Len(sent[t]) = Len(entity_ids) /\ message_id = Len(entity_ids) + 1) =>
              \A k \in DOMAIN sent[t] : sent[t][k].id = k

\* C16, the case: a thread has subscribed both entities in its first session, sensor.a
\* with id 1 and sensor.b with id 2, and is reading again.
C16_Witness ==
    \E t \in Threads :
        /\ pc[t] = "read"
        /\ sock[t]
        /\ depth[t] = 1
        /\ sent[t] = <<[id |-> 1, entity_id |-> "a"], [id |-> 2, entity_id |-> "b"]>>

\* C17: the dispatch of a malformed frame - text that is not JSON, a frame without a
\* type, an event frame without an id or with a field missing - calls no callback,
\* changes nothing (the table included) and leaves the thread reading its open
\* socket, where a later event frame whose id is in the table reaches the callback.
C17_MalformedFrameDropped ==
    [][/\ dispatched'.frame \in Malformed =>
            /\ dispatched'.output.kind # "event"
            /\ UNCHANGED program
            /\ pc'[dispatched'.thread] = "read"
            /\ sock'[dispatched'.thread]
       /\ (dispatched.frame \in Malformed /\ dispatched'.frame.type = "event"
              /\ dispatched'.thread = dispatched.thread
              /\ subscription_ids[dispatched'.frame.id] # None) =>
            /\ dispatched'.output.kind = "event"
            /\ dispatched'.output.entity_id = subscription_ids[dispatched'.frame.id]]_vars

\* C17, the case: an event frame of a tracked id with a missing field has just raised
\* in the handler, and the thread is reading on with the table intact.
C17_Witness ==
    /\ dispatched.frame.type = "event_incomplete"
    /\ subscription_ids[dispatched.frame.id] # None
    /\ dispatched.output = ErrorOutput
    /\ pc[dispatched.thread] = "read"
    /\ sock[dispatched.thread]
    /\ Len(sent[dispatched.thread]) = Len(entity_ids)

\* C18: the StateChangeEvent built from the frame of an entity carries as
\* new_state_raw and old_state_raw the states of to_state and from_state as received
\* (None where the object is absent), and as new_state and old_state what
\* _convert_value makes of them for the entity's declared type; a numeric entity going
\* from "unknown" to "21.5" gets new_state 21.5 and old_state None. Every such frame
\* gets its event.
C18_EventCarriesConvertedValues ==
    event # Pending =>
        /\ event.kind = "StateChangeEvent"
        /\ event.new_state_raw = (IF to_state = NoObject THEN NoneValue ELSE to_state.state)
        /\ event.old_state_raw = (IF from_state = NoObject THEN NoneValue ELSE from_state.state)
        /\ event.new_state = ConvertValue(event.new_state_raw, data_type, args.tz)
        /\ event.old_state = ConvertValue(event.old_state_raw, data_type, args.tz)
        /\ (/\ data_type = "numeric"
            /\ to_state = StateObject(Str(<<"2", "1", ".", "5">>))
            /\ from_state = StateObject(Str(Unknown))) =>
                /\ event.new_state = [kind |-> "float", neg |-> FALSE, m |-> 215, e |-> -1]
                /\ event.old_state = NoneValue

\* C19: _convert_value returns for every value and every declared type: it never
\* raises.
C19_ConvertValueNeverRaises == ~IsException(converted)

\* C20: for a state that is None (or whose object is absent), 'unknown' or
\* 'unavailable', _convert_value returns None whatever the declared type.
C20_UnknownIsNone ==
    (/\ converted # Pending
     /\ \/ to_state = NoObject
        \/ to_state.state \in {NoneValue, Str(Unknown), Str(Unavailable)}) =>
        converted = NoneValue

\* C20, the case: 'unavailable' was converted for an entity declared string, the type
\* whose conversion would have kept it.
C20_Witness ==
    /\ to_state = StateObject(Str(Unavailable))
    /\ data_type = "string"
    /\ converted = NoneValue

\* C21: for an entity declared bool or boolean, a state whose lower-cased text is on,
\* true or 1 is converted to True, one whose lower-cased text is off, false or 0 to
\* False, and every other state to None; the text of a JSON true is True, of a JSON
\* false False and of a null None.
C21_BooleanByLoweredText ==
    (converted # Pending /\ data_type \in {"bool", "boolean"}) =>
        LET raw == RawState(to_state)
            text == IF raw.kind = "str" THEN raw.text
                    ELSE IF raw.kind = "None" THEN <<"N", "o", "n", "e">>
                    ELSE IF raw.truth THEN <<"T", "r", "u", "e">>
                    ELSE <<"F", "a", "l", "s", "e">>
        IN  converted =
                IF Lower(text) \in {<<"o", "n">>, <<"t", "r", "u", "e">>, <<"1">>}
                THEN Bool(TRUE)
                ELSE IF Lower(text) \in {<<"o", "f", "f">>, <<"f", "a", "l", "s", "e">>, <<"0">>}
                THEN Bool(FALSE)
                ELSE NoneValue

\* C21, the case: ON, in capitals, was converted to True for an entity declared bool.
C21_Witness ==
    /\ to_state = StateObject(Str(<<"O", "N">>))
    /\ data_type = "bool"
    /\ converted = Bool(TRUE)

\* C22: with tz set, a timestamp parsed with an offset is converted to tz and denotes
\* the same instant as before, and a timestamp parsed without an offset keeps its wall
\* clock and only gets tz attached: 10:30 read in Australia/Brisbane stays 10:30, and
\* 10:30Z becomes 20:30 there.
C22_TargetZoneApplied ==
    (/\ converted # Pending
     /\ data_type = "datetime"
     /\ args.tz # None
     /\ RawState(to_state).kind = "str"
     /\ ~IsException(FromIsoFormat(ReplaceZ(RawState(to_state).text)))) =>
        LET parsed == FromIsoFormat(ReplaceZ(RawState(to_state).text))
        IN  /\ converted.kind = "datetime"
            /\ converted.aware
            /\ converted.zone = args.tz
            /\ converted.offset = ZoneOffset(args.tz)
            /\ IF parsed.aware THEN Instant(converted) = Instant(parsed)
               ELSE converted.wall = parsed.wall
            /\ (/\ args.tz = "Australia/Brisbane"
                /\ to_state = StateObject(Str(
                       <<"2", "0", "2", "4", "-", "0", "2", "-", "1", "4", "T", "1", "0", ":",
                         "3", "0", ":", "0", "0">>))) =>
                    converted.wall = <<2024, 2, 14, 10, 30, 0, 0>>
            /\ (/\ args.tz = "Australia/Brisbane"
                /\ to_state = StateObject(Str(
                       <<"2", "0", "2", "4", "-", "0", "2", "-", "1", "4", "T", "1", "0", ":",
                         "3", "0", ":", "0", "0", "Z">>))) =>
                    converted.wall = <<2024, 2, 14, 20, 30, 0, 0>>

\* C23: get_data turns every failed request into an APIError: one with the status code
\* of the response when the server answered with an error status, one with status_code
\* None when the request timed out or the connection failed; nothing else is raised
\* for these, and a request answered with a JSON body returns that body decoded.
C23_RequestFailureIsAPIError ==
    outcome.call = "get_data" =>
        /\ outcome.met.kind \in {"Timeout", "ConnectionError"} =>
               outcome.result = [kind |-> "APIError", status_code |-> None]
        /\ (outcome.met.kind = "response" /\ outcome.met.status \in {401, 404, 500}) =>
               outcome.result = [kind |-> "APIError", status_code |-> outcome.met.status]
        /\ (/\ outcome.met.kind = "response"
            /\ outcome.met.status = 200
            /\ outcome.met.body.kind = "json") =>
               outcome.result = [kind |-> "return",
                                 value |-> [kind |-> "list", rows |-> outcome.met.body.rows]]

\* C23, the case: get_data met a 404 and raised an APIError carrying 404.
C23_Witness ==
    /\ outcome.call = "get_data"
    /\ outcome.met.kind = "response"
    /\ outcome.met.status = 404
    /\ outcome.result = APIError(404)

\* C24: when the with statement over a client ends, by the end of its body or by an
\* exception raised in it, session.close() is called exactly once, and the exception
\* raised in the body, if any, is still raised after the statement.
C24_WithClosesOnceAndPropagates ==
    [][(block.at = "inside" /\ block'.at = "left") =>
           /\ closes' = closes + 1
           /\ session' = "closed"
           /\ block'.exception = block.exception]_vars

\* C24, the case: the body raised ValueError, the statement was left with the one
\* close() and the ValueError still raised.
C24_Witness ==
    /\ block = Block("left", "ValueError")
    /\ closes = 1
    /\ session = "closed"

\* C25: a client constructed with a table as states_df returns that table from
\* get_states() and sends no request for it.
C25_PreloadedStatesReturned ==
    (outcome.call = "get_states" /\ client_args.states_df # NoneValue) =>
        /\ outcome.result = Returned(client_args.states_df)
        /\ outcome.met = NoAnswer

\* C26: the entry of a subscribe request is in the table before the request is sent:
\* a thread comes to the send of line 325 only by the step that has just written
\* subscription_ids[subscription_id] = entity_id, and a request is sent only from
\* there, carrying that id and that entity.
C26_RecordedBeforeSent ==
    [][\A t \in Threads :
          /\ (pc'[t] = "sub_send" /\ pc[t] # "sub_send") =>
                 subscription_ids'[subscription_id'[t]] = entity_ids[idx'[t]]
          /\ Len(sent'[t]) > Len(sent[t]) =>
                 /\ pc[t] = "sub_send"
                 /\ sent'[t] = Append(sent[t], [id |-> subscription_id[t],
                                                entity_id |-> entity_ids[idx[t]]])]_vars

\* C26, the case: the request of the first entity was sent on an open socket and its
\* id resolves to that entity in the table.
C26_Witness ==
    \E t \in Threads :
        /\ sock[t]
        /\ Len(sent[t]) = 1
        /\ subscription_ids[sent[t][1].id] = sent[t][1].entity_id
        /\ sent[t][1].entity_id = entity_ids[1]

\* C27: every access to the table is made by the context that holds the one lock: the
\* table changes only in a step of the holder, which releases the lock with it, and an
\* event frame is looked up only by the holder; no two contexts are inside an access
\* at once; and the lock, once taken, is always released, so stop() and the monitoring
\* thread never block each other for good.
C27_TableAccessUnderLock ==
    /\ [](/\ Cardinality(Inside) <= 1
          /\ Inside = (IF subscription_lock = 0 THEN {} ELSE {subscription_lock}))
    /\ [][(subscription_ids' # subscription_ids =>
               (subscription_lock # 0 /\ subscription_lock' = 0))
           /\ ((dispatched' # NoDispatch /\ dispatched'.frame.type = "event") =>
                  (subscription_lock = dispatched'.thread /\ subscription_lock' = 0))]_vars
    /\ \A c \in Threads \cup {Caller} : (subscription_lock = c) ~> (subscription_lock = 0)

\* C27, the case: stop() stands before its with statement while the monitoring thread
\* holds the lock for the entry it is about to write.
C27_Witness ==
    /\ cpc = "stop_clear"
    /\ \E t \in Threads : subscription_lock = t /\ pc[t] = "sub_locked"

\* C28: no id is used twice in a session: the subscribe requests sent on one socket
\* carry different ids, and no entry of the table is overwritten with another entity;
\* and whatever start() and stop() calls are made, at most one context is in the loop
\* of _subscribe_to_entities, the only code that reads and increments message_id.
C28_IdNeverReused ==
    [][/\ \A t \in Threads : \A i, j \in DOMAIN sent'[t] :
              i # j => sent'[t][i].id # sent'[t][j].id
       /\ \A k \in Ids :
              subscription_ids[k] # None => subscription_ids'[k] \in {None, subscription_ids[k]}
       /\ Cardinality({t \in Threads : pc'[t] \in {"sub_insert", "sub_send"}}) <= 1]_vars

\* C29: the auth frame is sent only by the dispatch of an auth_required frame; a
\* thread enters the loop of _subscribe_to_entities only by the dispatch of an auth_ok
\* frame read from its open socket, subscribe requests are sent only from inside that
\* loop, and the socket of a thread inside the loop is never a newly opened one: no
\* request goes out on a session that has not received auth_ok.
C29_AuthThenSubscribe ==
    [][/\ (dispatched' # NoDispatch /\ dispatched'.output = AuthFrame) =>
              dispatched'.frame.type = "auth_required"
       /\ \A t \in Threads :
              /\ Len(sent'[t]) > Len(sent[t]) => pc[t] \in {"sub_insert", "sub_send"}
              /\ (pc'[t] \in {"sub_insert", "sub_send"} /\ pc[t] \notin {"sub_insert", "sub_send"}) =>
                     /\ dispatched' = [thread |-> t, frame |-> AuthOk, output |-> NoOutput,
                                       raised |-> FALSE]
                     /\ sock[t]
                     /\ pc[t] = "read"
              /\ (pc[t] \in {"sub_insert", "sub_send"} /\ sock'[t]) => sock[t]]_vars

\* C29, the case: a thread has just received auth_ok on its open socket and stands
\* before its first subscribe request, none sent so far.
C29_Witness ==
    \E t \in Threads :
        /\ dispatched = [thread |-> t, frame |-> AuthOk, output |-> NoOutput, raised |-> FALSE]
        /\ pc[t] = "sub_insert"
        /\ sock[t]
        /\ sent[t] = <<>>

\* C30: the dispatch of a result frame, of a success or of a failure, changes nothing
\* and calls nothing: the table, message_id, the sockets and every thread's position
\* stay as they were. And nothing waits for a result frame: a thread inside the loop
\* of _subscribe_to_entities can always take its next step, and an event frame whose
\* id is in the table can be dispatched on any open socket that is being read.
C30_ResultOnlyLogged ==
    /\ [][(dispatched' # NoDispatch /\ dispatched'.frame.type \in {"result", "result_failure"}) =>
              /\ dispatched'.output = NoOutput
              /\ UNCHANGED program]_vars
    /\ [](\A t \in Threads :
              /\ pc[t] = "sub_insert" => ENABLED SubInsert(t)
              /\ pc[t] = "sub_send" => ENABLED SubSend(t)
              /\ (pc[t] = "read" /\ sock[t]) =>
                     \A k \in Ids : ENABLED Recv(t, [type |-> "event", id |-> k], FALSE))

\* C30, the case: the result frame of a failed subscription was dispatched for an id
\* that is in the table, on a socket that stays open.
C30_Witness ==
    /\ dispatched.frame.type = "result_failure"
    /\ subscription_ids[dispatched.frame.id] # None
    /\ sock[dispatched.thread]
    /\ pc[dispatched.thread] = "read"

\* C31: a frame whose type is none of the types _on_message has a branch for is
\* ignored wherever the thread reads: nothing is sent, the callback is not called,
\* nothing is raised or logged as an error, and the table, message_id, the socket
\* and every other field stay as they were; and such a frame can be taken in every
\* state in which the thread reads, before authentication, after the subscriptions
\* and while stop() runs.
C31_UnknownFrameIgnored ==
    /\ [][(dispatched' # NoDispatch /\ dispatched'.frame \in UnknownFrames) =>
              /\ dispatched'.output = NoOutput
              /\ ~dispatched'.raised
              /\ UNCHANGED program]_vars
    /\ [](\A t \in Threads : (pc[t] = "read" /\ sock[t]) =>
              \A m \in UnknownFrames : ENABLED Recv(t, m, FALSE))

\* C31, the case: a frame of an unknown type was dispatched after the subscriptions
\* were made, with the table filled, and the thread reads on.
C31_Witness ==
    /\ dispatched.frame \in UnknownFrames
    /\ \E k \in Ids : subscription_ids[k] # None
    /\ Len(sent[dispatched.thread]) = Len(entity_ids)
    /\ pc[dispatched.thread] = "read"
    /\ sock[dispatched.thread]

\* C32: reconnecting does not deepen the call stack of the monitoring thread: the
\* number of nested _connect frames after the sleep is what it was before it, so the
\* depth is the same constant however many reconnects have happened.
C32_NestingDepthConstant ==
    [][\A t \in Threads : pc[t] = "sleep" => depth'[t] <= depth[t]]_vars

\* C33: once stop() has returned, and until start() is called again (the caller is
\* idle and should_reconnect is false before and after the step), no frame that is
\* dispatched reaches the user's callback.
C33_NoCallbackAfterStop ==
    [][(cpc = "idle" /\ ~should_reconnect /\ cpc' = "idle" /\ ~should_reconnect') =>
           dispatched'.output.kind # "event"]_vars

\* C34: the table never holds two ids for one configured entity, and so never more
\* entries than there are configured entities, whatever frames arrive in a session,
\* an auth_ok frame arriving a second time included.
C34_OneIdPerEntity ==
    /\ \A i \in DOMAIN entity_ids :
           Cardinality({k \in Keys : subscription_ids[k] = entity_ids[i]}) <= 1
    /\ Cardinality({k \in Keys : subscription_ids[k] # None}) <= Len(entity_ids)

\* C35 as stated: every value of the table is a key of entities, and every key of the
\* table is smaller than message_id.
C35_KeysBelowCounter ==
    \A k \in Keys :
        subscription_ids[k] # None =>
            /\ subscription_ids[k] \in DOMAIN entities
            /\ k < message_id

\* C35: every value of the table is a key of entities, so the lookup of the declared
\* type at line 504 is defined, and every key of the table is at most message_id; the
\* key that equals message_id is that of a request that is being sent (the increment
\* of line 335 comes after the send) or whose send failed on a closed socket.
C35_KeysUpToCounter ==
    \A k \in Keys :
        subscription_ids[k] # None =>
            /\ subscription_ids[k] \in DOMAIN entities
            /\ k <= message_id
            /\ k = message_id =>
                   \E t \in Threads : pc[t] = "sub_send" \/ (pc[t] = "read" /\ ~sock[t])

\* C35, the case: the send of a subscribe request failed on a closed socket, its
\* entry is in the table under the id the counter still has, and the entry of the
\* request before it is under a smaller id.
C35_Witness ==
    /\ \E t \in Threads : pc[t] = "read" /\ ~sock[t] /\ Len(sent[t]) = 1
    /\ subscription_ids[message_id] = "b"
    /\ \E k \in Keys : k < message_id /\ subscription_ids[k] = "a"

\* C36: a call of get_states(), get_state_as_string() or
\* get_state_attribute_as_string() on a client whose cache is empty makes exactly one
\* request, to base_url/api/states; when the server answers 200 with a JSON list the
\* table made of it is cached, and otherwise the call raises and the cache stays
\* empty, so that the next call asks again. On a client whose cache is filled the call
\* makes no request and leaves the cache as it is, get_states() returning it; and no
\* step replaces a filled cache.
C36_StatesFetchedOnce ==
    /\ [][(/\ outcome'.n # outcome.n
           /\ outcome'.call \in {"get_states", "get_state_as_string",
                                  "get_state_attribute_as_string"}) =>
              IF states_df # NoneValue
              THEN /\ gets' = gets
                   /\ states_df' = states_df
                   /\ outcome'.met.kind = "none"
                   /\ outcome'.call = "get_states" =>
                          outcome'.result = [kind |-> "return", value |-> states_df]
              ELSE /\ gets' = Append(gets, base_url \o StatesEndpoint)
                   /\ IF /\ outcome'.met.kind = "response"
                         /\ outcome'.met.status = 200
                         /\ outcome'.met.body.kind = "json"
                      THEN /\ states_df' = [kind |-> "DataFrame",
                                            rows |-> outcome'.met.body.rows]
                           /\ outcome'.call = "get_states" =>
                                  outcome'.result = [kind |-> "return", value |-> states_df']
                      ELSE /\ states_df' = NoneValue
                           /\ outcome'.result.kind # "return"]_vars
    /\ [][states_df # NoneValue => states_df' = states_df]_vars

\* C36, the case: the second get_states() on a client returned the table the first
\* one fetched, and one request was made in all.
C36_Witness ==
    /\ outcome.call = "get_states"
    /\ outcome.met.kind = "none"
    /\ outcome.result = [kind |-> "return", value |-> states_df]
    /\ states_df # NoneValue
    /\ states_df.rows # <<>>
    /\ Len(gets) = 1

====
